---- MODULE Spec2Model ----
(***************************************************************************)
(* The batch-naming grid engine of the "Name It" plugin: the name parser,  *)
(* the spatial sorter, the grid state store with its undo/redo history,    *)
(* the series detector/continuer and the selection & fill controller.      *)
(*                                                                         *)
(* A string is modelled as the sequence of its characters, each a          *)
(* one-character TLA+ string: "a_1" is <<"a", "_", "1">>, '' is <<>>.      *)
(* Array indices are 0-based in the operators' parameters, as in the       *)
(* source; sequences are 1-based inside.                                   *)
(***************************************************************************)
EXTENDS Integers, Sequences, FiniteSets, TLC

(* ------------------------------ characters ----------------------------- *)

Lower == <<"a","b","c","d","e","f","g","h","i","j","k","l","m",
           "n","o","p","q","r","s","t","u","v","w","x","y","z">>

Upper == <<"A","B","C","D","E","F","G","H","I","J","K","L","M",
           "N","O","P","Q","R","S","T","U","V","W","X","Y","Z">>

Digits == <<"0","1","2","3","4","5","6","7","8","9">>

Range(s) == {s[i] : i \in DOMAIN s}

IndexOf(table, c) == CHOOSE i \in DOMAIN table : table[i] = c

\* [a-z], [A-Z], \d and [a-zA-Z] of the regular expressions
IsLower(c) == c \in Range(Lower)

IsUpper(c) == c \in Range(Upper)

IsDigit(c) == c \in Range(Digits)

IsLetter(c) == IsLower(c) \/ IsUpper(c)

\* the characters trySeparatorParsing splits on: '_-/. '
SeparatorChars == {"_", "-", "/", ".", " "}

\* \s of the separator test: white space that is not the blank
toLowerCase(s) ==
  [i \in DOMAIN s |-> IF IsUpper(s[i]) THEN Lower[IndexOf(Upper, s[i])] ELSE s[i]]

\* s.slice(from) and s.slice(0, len), 0-based
SliceFrom(s, from) == SubSeq(s, from + 1, Len(s))

SliceTo(s, len) == SubSeq(s, 1, len)

Max2(a, b) == IF a >= b THEN a ELSE b

Min2(a, b) == IF a <= b THEN a ELSE b

(* ------------------------------ dictionary ----------------------------- *)

COMMON_WORDS ==
  {
    <<"i","c","o","n">>, <<"b","u","t","t","o","n">>, <<"b","t","n">>, <<"i","n","p","u","t">>,
    <<"t","e","x","t">>, <<"l","a","b","e","l">>, <<"c","a","r","d">>, <<"m","o","d","a","l">>,
    <<"d","i","a","l","o","g">>, <<"m","e","n","u">>, <<"d","r","o","p","d","o","w","n">>,
    <<"s","e","l","e","c","t">>, <<"c","h","e","c","k","b","o","x">>, <<"r","a","d","i","o">>,
    <<"t","o","g","g","l","e">>, <<"s","w","i","t","c","h">>, <<"s","l","i","d","e","r">>,
    <<"p","r","o","g","r","e","s","s">>, <<"s","p","i","n","n","e","r">>,
    <<"l","o","a","d","e","r">>, <<"a","v","a","t","a","r">>, <<"b","a","d","g","e">>,
    <<"c","h","i","p">>, <<"t","a","g">>, <<"t","o","o","l","t","i","p">>,
    <<"p","o","p","o","v","e","r">>, <<"t","o","a","s","t">>, <<"a","l","e","r","t">>,
    <<"b","a","n","n","e","r">>, <<"h","e","a","d","e","r">>, <<"f","o","o","t","e","r">>,
    <<"n","a","v">>, <<"s","i","d","e","b","a","r">>, <<"t","a","b">>, <<"p","a","n","e","l">>,
    <<"a","c","c","o","r","d","i","o","n">>, <<"l","i","s","t">>, <<"i","t","e","m">>,
    <<"r","o","w">>, <<"c","o","l">>, <<"g","r","i","d">>,
    <<"c","o","n","t","a","i","n","e","r">>, <<"w","r","a","p","p","e","r">>, <<"b","o","x">>,
    <<"f","r","a","m","e">>, <<"g","r","o","u","p">>, <<"s","t","a","c","k">>,
    <<"d","i","v","i","d","e","r">>, <<"s","e","p","a","r","a","t","o","r">>,
    <<"i","m","a","g","e">>, <<"i","m","g">>, <<"l","i","n","k">>, <<"a","n","c","h","o","r">>,
    <<"f","o","r","m">>, <<"f","i","e","l","d">>, <<"t","a","b","l","e">>, <<"c","e","l","l">>,
    <<"s","e","c","t","i","o","n">>, <<"h","o","v","e","r">>, <<"a","c","t","i","v","e">>,
    <<"f","o","c","u","s">>, <<"d","i","s","a","b","l","e","d">>,
    <<"s","e","l","e","c","t","e","d">>, <<"c","h","e","c","k","e","d">>,
    <<"p","r","e","s","s","e","d">>, <<"l","o","a","d","i","n","g">>, <<"e","r","r","o","r">>,
    <<"s","u","c","c","e","s","s">>, <<"w","a","r","n","i","n","g">>, <<"i","n","f","o">>,
    <<"p","r","i","m","a","r","y">>, <<"s","e","c","o","n","d","a","r","y">>,
    <<"t","e","r","t","i","a","r","y">>, <<"d","e","f","a","u","l","t">>,
    <<"o","u","t","l","i","n","e">>, <<"g","h","o","s","t">>, <<"f","i","l","l","e","d">>,
    <<"e","m","p","t","y">>, <<"o","p","e","n">>, <<"c","l","o","s","e","d">>,
    <<"e","x","p","a","n","d","e","d">>, <<"c","o","l","l","a","p","s","e","d">>, <<"x","s">>,
    <<"s","m">>, <<"m","d">>, <<"l","g">>, <<"x","l">>, <<"x","x","l">>,
    <<"s","m","a","l","l">>, <<"m","e","d","i","u","m">>, <<"l","a","r","g","e">>,
    <<"t","i","n","y">>, <<"m","i","n","i">>, <<"b","i","g">>, <<"h","u","g","e">>,
    <<"b","g">>, <<"b","a","c","k","g","r","o","u","n","d">>, <<"f","g">>,
    <<"f","o","r","e","g","r","o","u","n","d">>, <<"f","i","l","l">>,
    <<"s","t","r","o","k","e">>, <<"b","o","r","d","e","r">>, <<"c","o","l","o","r">>,
    <<"d","a","r","k">>, <<"l","i","g","h","t">>, <<"w","h","i","t","e">>,
    <<"b","l","a","c","k">>, <<"g","r","a","y">>, <<"g","r","e","y">>, <<"r","e","d">>,
    <<"b","l","u","e">>, <<"g","r","e","e","n">>, <<"y","e","l","l","o","w">>,
    <<"o","r","a","n","g","e">>, <<"p","u","r","p","l","e">>, <<"p","i","n","k">>,
    <<"c","y","a","n">>, <<"t","e","a","l">>, <<"i","n","d","i","g","o">>,
    <<"v","i","o","l","e","t">>, <<"b","r","a","n","d">>, <<"a","c","c","e","n","t">>,
    <<"t","o","p">>, <<"b","o","t","t","o","m">>, <<"l","e","f","t">>, <<"r","i","g","h","t">>,
    <<"c","e","n","t","e","r">>, <<"s","t","a","r","t">>, <<"e","n","d">>,
    <<"l","e","a","d","i","n","g">>, <<"t","r","a","i","l","i","n","g">>,
    <<"i","n","n","e","r">>, <<"o","u","t","e","r">>, <<"m","i","d","d","l","e">>,
    <<"h","o","r","i","z","o","n","t","a","l">>, <<"v","e","r","t","i","c","a","l">>,
    <<"n","o","r","t","h">>, <<"s","o","u","t","h">>, <<"e","a","s","t">>, <<"w","e","s","t">>,
    <<"a","d","d">>, <<"e","d","i","t">>, <<"d","e","l","e","t","e">>,
    <<"r","e","m","o","v","e">>, <<"s","a","v","e">>, <<"c","a","n","c","e","l">>,
    <<"c","l","o","s","e">>, <<"s","h","o","w">>, <<"h","i","d","e">>,
    <<"e","x","p","a","n","d">>, <<"c","o","l","l","a","p","s","e">>, <<"c","o","p","y">>,
    <<"p","a","s","t","e">>, <<"s","e","a","r","c","h">>, <<"f","i","l","t","e","r">>,
    <<"s","o","r","t">>, <<"r","e","f","r","e","s","h">>, <<"s","y","n","c">>,
    <<"u","p","l","o","a","d">>, <<"d","o","w","n","l","o","a","d">>,
    <<"s","u","b","m","i","t">>, <<"r","e","s","e","t">>, <<"c","l","e","a","r">>,
    <<"u","n","d","o">>, <<"r","e","d","o">>, <<"b","a","c","k">>, <<"n","e","x","t">>,
    <<"p","r","e","v">>, <<"m","a","i","n">>, <<"s","u","b">>, <<"b","a","s","e">>,
    <<"r","o","o","t">>, <<"a","p","p">>, <<"p","a","g","e">>, <<"v","i","e","w">>,
    <<"s","c","r","e","e","n">>, <<"c","o","m","p","o","n","e","n","t">>,
    <<"e","l","e","m","e","n","t">>, <<"w","i","d","g","e","t">>,
    <<"c","o","n","t","r","o","l">>, <<"a","c","t","i","o","n">>,
    <<"c","o","n","t","e","n","t">>, <<"t","i","t","l","e">>,
    <<"s","u","b","t","i","t","l","e">>, <<"d","e","s","c","r","i","p","t","i","o","n">>,
    <<"b","o","d","y">>, <<"n","a","m","e">>, <<"v","a","l","u","e">>
  }

(* ------------------------------ name parser ---------------------------- *)

\* a strategy that does not apply returns null
Null == <<>>

\* the parts of s cut before each (0-based) position of the set cuts
RECURSIVE SplitAt(_, _)
SplitAt(s, cuts) ==
  IF cuts = {} THEN <<s>>
  ELSE LET c == CHOOSE x \in cuts : \A y \in cuts : y <= x
       IN  Append(SplitAt(SliceTo(s, c), cuts \ {c}), SliceFrom(s, c))

\* the loop of trySeparatorParsing over the characters from position i (1-based)
RECURSIVE SeparatorLoop(_, _, _, _)
SeparatorLoop(name, i, parts, current) ==
  IF i > Len(name)
  THEN IF current # <<>> THEN Append(parts, current) ELSE parts
  ELSE IF name[i] \in SeparatorChars
       THEN SeparatorLoop(name, i + 1,
              Append(IF current # <<>> THEN Append(parts, current) ELSE parts,
                     <<name[i]>>),
              <<>>)
       ELSE SeparatorLoop(name, i + 1, parts, Append(current, name[i]))

trySeparatorParsing(name) ==
  IF ~ \E i \in DOMAIN name : name[i] \in SeparatorChars \cup {"\t", "\n"}
  THEN Null
  ELSE LET parts == SeparatorLoop(name, 1, <<>>, <<>>)
       IN  IF Len(parts) > 1 THEN parts ELSE Null

\* name.split(/(?=[A-Z])/): a cut before every upper-case letter but the first
\* character
tryCamelCaseParsing(name) ==
  IF ~ \E i \in 1..(Len(name) - 1) : IsLower(name[i]) /\ IsUpper(name[i + 1])
  THEN Null
  ELSE LET parts == SplitAt(name, {i \in 1..(Len(name) - 1) : IsUpper(name[i + 1])})
       IN  IF Len(parts) > 1 THEN parts ELSE Null

\* name.split(/(?<=\D)(?=\d)|(?<=\d)(?=\D)/): a cut wherever a digit meets a
\* non-digit
tryNumberBoundaryParsing(name) ==
  IF ~ \E i \in 1..(Len(name) - 1) :
         \/ IsDigit(name[i]) /\ IsLetter(name[i + 1])
         \/ IsLetter(name[i]) /\ IsDigit(name[i + 1])
  THEN Null
  ELSE LET parts == SplitAt(name,
                      {i \in 1..(Len(name) - 1) : IsDigit(name[i]) # IsDigit(name[i + 1])})
       IN  IF Len(parts) > 1 THEN parts ELSE Null

\* the while loop of tryDictionaryParsing
RECURSIVE DictionaryLoop(_, _)
DictionaryLoop(remaining, parts) ==
  IF Len(remaining) = 0 THEN parts
  ELSE LET lowerRemaining == toLowerCase(remaining)
           \* the lengths of the dictionary words that start lowerRemaining
           lens == {len \in 2..Min2(Len(lowerRemaining), 12) :
                      SliceTo(lowerRemaining, len) \in COMMON_WORDS}
       IN
       IF lens # {}
       THEN LET len == CHOOSE l \in lens : \A m \in lens : m <= l
            IN  DictionaryLoop(SliceFrom(remaining, len), Append(parts, SliceTo(remaining, len)))
       ELSE IF Len(parts) > 0 /\ Len(parts[Len(parts)]) < 3
            THEN DictionaryLoop(SliceFrom(remaining, 1),
                   [parts EXCEPT ![Len(parts)] = Append(@, remaining[1])])
            ELSE DictionaryLoop(SliceFrom(remaining, 1), Append(parts, <<remaining[1]>>))

RECURSIVE MergeLoop(_, _, _)
MergeLoop(parts, i, result) ==
  IF i > Len(parts) THEN result
  ELSE LET part == parts[i] IN
       IF Len(part) = 1 /\ Len(result) > 0
       THEN MergeLoop(parts, i + 1, [result EXCEPT ![Len(result)] = @ \o part])
       ELSE IF Len(part) = 1 /\ Len(result) = 0
       THEN MergeLoop(parts, i + 1, Append(result, part))
       ELSE IF Len(result) > 0 /\ Len(result[Len(result)]) = 1
            THEN MergeLoop(parts, i + 1, [result EXCEPT ![Len(result)] = @ \o part])
            ELSE MergeLoop(parts, i + 1, Append(result, part))

mergeSingleChars(parts) == MergeLoop(parts, 1, <<>>)

\* a variant of tryDictionaryParsing that cuts the parts out of lowerName
tryDictionaryParsing_fromLowerName(name) ==
  LET mergedParts == mergeSingleChars(DictionaryLoop(toLowerCase(name), <<>>))
  IN  IF Len(mergedParts) > 1 THEN mergedParts ELSE Null

tryDictionaryParsing(name) ==
  LET mergedParts == mergeSingleChars(DictionaryLoop(name, <<>>))
  IN  IF Len(mergedParts) > 1 THEN mergedParts ELSE Null

\* a variant of parseLayerName without the single-part fallback
parseLayerName_noFallback(name) ==
  LET separatorResult == trySeparatorParsing(name)
      camelResult == tryCamelCaseParsing(name)
      numberResult == tryNumberBoundaryParsing(name)
      dictResult == tryDictionaryParsing(name)
  IN  IF separatorResult # Null /\ Len(separatorResult) > 1 THEN separatorResult
      ELSE IF camelResult # Null /\ Len(camelResult) > 1 THEN camelResult
      ELSE IF numberResult # Null /\ Len(numberResult) > 1 THEN numberResult
      ELSE dictResult

\* a variant of parseLayerName that tries the case boundaries first
parseLayerName_camelFirst(name) ==
  LET separatorResult == trySeparatorParsing(name)
      camelResult == tryCamelCaseParsing(name)
      numberResult == tryNumberBoundaryParsing(name)
      dictResult == tryDictionaryParsing(name)
  IN  IF camelResult # Null /\ Len(camelResult) > 1 THEN camelResult
      ELSE IF separatorResult # Null /\ Len(separatorResult) > 1 THEN separatorResult
      ELSE IF numberResult # Null /\ Len(numberResult) > 1 THEN numberResult
      ELSE IF dictResult # Null /\ Len(dictResult) > 1 THEN dictResult
      ELSE <<name>>

\* the parts of the ParsedName
parseLayerName(name) ==
  LET separatorResult == trySeparatorParsing(name)
      camelResult == tryCamelCaseParsing(name)
      numberResult == tryNumberBoundaryParsing(name)
      dictResult == tryDictionaryParsing(name)
  IN  IF separatorResult # Null /\ Len(separatorResult) > 1 THEN separatorResult
      ELSE IF camelResult # Null /\ Len(camelResult) > 1 THEN camelResult
      ELSE IF numberResult # Null /\ Len(numberResult) > 1 THEN numberResult
      ELSE IF dictResult # Null /\ Len(dictResult) > 1 THEN dictResult
      ELSE <<name>>

\* Math.max(1, ...lengths)
RECURSIVE getMaxColumns(_)
getMaxColumns(parsedNames) ==
  IF parsedNames = <<>> THEN 1
  ELSE Max2(Len(Head(parsedNames)), getMaxColumns(Tail(parsedNames)))

RECURSIVE padParts(_, _)
padParts(parts, columnCount) ==
  IF Len(parts) < columnCount THEN padParts(Append(parts, <<>>), columnCount) ELSE parts

(* ------------------------------ spatial sorter ------------------------- *)

Directions == {"left-to-right", "right-to-left", "top-to-bottom", "bottom-to-top",
               "reading-order"}

getThreshold(layers) ==
  IF Len(layers) < 2 THEN 20
  ELSE LET avgHeight == (50 * Len(layers)) \div Len(layers)
       IN  Max2(20, avgHeight \div 2)

\* the comparator handed to Array.prototype.sort: negative, zero or positive
Compare(a, b, direction, threshold) ==
  CASE direction = "left-to-right" -> IF a.x - b.x # 0 THEN a.x - b.x ELSE a.y - b.y
    [] direction = "right-to-left" -> IF b.x - a.x # 0 THEN b.x - a.x ELSE a.y - b.y
    [] direction = "top-to-bottom" ->
         LET colA == a.x \div threshold
             colB == b.x \div threshold
         IN  IF colA # colB THEN colA - colB ELSE a.y - b.y
    [] direction = "bottom-to-top" -> IF b.y - a.y # 0 THEN b.y - a.y ELSE a.x - b.x
    [] direction = "reading-order" ->
         LET rowA == a.y \div threshold
             rowB == b.y \div threshold
         IN  IF rowA # rowB THEN rowA - rowB ELSE a.x - b.x
    [] OTHER -> 0

\* a variant of InsertStable that puts a layer before the layers it is equal to
InsertStable_beforeEquals(sorted, e, direction, threshold) ==
  LET after == {i \in DOMAIN sorted : Compare(sorted[i], e, direction, threshold) >= 0}
      pos == IF after = {} THEN Len(sorted) + 1
             ELSE CHOOSE i \in after : \A j \in after : i <= j
  IN  SubSeq(sorted, 1, pos - 1) \o <<e>> \o SubSeq(sorted, pos, Len(sorted))

\* Array.prototype.sort is stable: an element goes behind every element that
\* does not compare greater than it
InsertStable(sorted, e, direction, threshold) ==
  LET after == {i \in DOMAIN sorted : Compare(sorted[i], e, direction, threshold) > 0}
      pos == IF after = {} THEN Len(sorted) + 1
             ELSE CHOOSE i \in after : \A j \in after : i <= j
  IN  SubSeq(sorted, 1, pos - 1) \o <<e>> \o SubSeq(sorted, pos, Len(sorted))

RECURSIVE SortLoop(_, _, _, _)
SortLoop(layers, sorted, direction, threshold) ==
  IF layers = <<>> THEN sorted
  ELSE SortLoop(Tail(layers), InsertStable(sorted, Head(layers), direction, threshold),
                direction, threshold)

sortLayersByDirection(layers, direction) ==
  SortLoop(layers, <<>>, direction, getThreshold(layers))

(* ------------------------------ grid state store ----------------------- *)

MAX_HISTORY == 50

\* an element of new Array(n) that no assignment reached: a hole among the
\* layer ids or types, and a hole among the rows. forEach, map and filter skip
\* holes.
Hole == "<empty>"

HoleRow == <<<<Hole>>>>

\* 'A', 'B', ..., 'Z', 'AA', ... for column index i
getColumnName(i) ==
  IF i < 26 THEN <<Upper[i + 1]>>
  ELSE <<Upper[(((i \div 26) - 1) % 26) + 1], Upper[(i % 26) + 1]>>

\* `col_${++columnIdCounter}`: the id is modelled by its number
generateColumnId(counter) == counter + 1

\* array[index] = value on a fresh copy: an index below 0 sets a property
\* that no copy, map, filter or join of the array sees; the index length
\* appends (an index beyond it would leave holes: no input of the model asks
\* for one)
SetIndex(array, index, value) ==
  IF index < 0 THEN array
  ELSE IF index < Len(array) THEN [array EXCEPT ![index + 1] = value]
  ELSE Append(array, value)

\* array.splice(start, 0, item): a negative start counts from the end, and
\* the start is clamped to 0..length
Splice(array, start, item) ==
  LET s == IF start < 0 THEN Max2(Len(array) + start, 0) ELSE Min2(start, Len(array))
  IN  SubSeq(array, 1, s) \o <<item>> \o SubSeq(array, s + 1, Len(array))

\* array.filter((_, i) => i !== index)
RECURSIVE FilterLoop(_, _, _)
FilterLoop(array, index, i) ==
  IF i > Len(array) THEN <<>>
  ELSE IF i - 1 # index THEN <<array[i]>> \o FilterLoop(array, index, i + 1)
       ELSE FilterLoop(array, index, i + 1)

FilterIndex(array, index) == FilterLoop(array, index, 1)

\* array.slice(-n) for n > 0: the last n elements
SliceLast(array, n) == SubSeq(array, Max2(Len(array) - n, 0) + 1, Len(array))

\* a variant of saveToHistory that keeps the last MAX_HISTORY entries before
\* it pushes
saveToHistory_keepsAll(history, currentState) ==
  Append(SliceLast(history, MAX_HISTORY), currentState)

\* the history stack after saveToHistory(currentState); the redo stack is
\* emptied by the same call
saveToHistory(history, currentState) ==
  Append(SliceLast(history, MAX_HISTORY - 1), currentState)

\* The store is the record [state, history, future, counter]: the React
\* state, historyRef.current, futureRef.current and columnIdCounter.

\* a variant of undo that does not keep the current state for redo
undo_forgetsCurrent(store) ==
  IF Len(store.history) = 0 THEN store
  ELSE [store EXCEPT !.history = SubSeq(store.history, 1, Len(store.history) - 1),
                     !.state = store.history[Len(store.history)]]

undo(store) ==
  IF Len(store.history) = 0 THEN store
  ELSE LET previous == store.history[Len(store.history)]
       IN  [store EXCEPT !.history = SubSeq(store.history, 1, Len(store.history) - 1),
                         !.future = <<store.state>> \o store.future,
                         !.state = previous]

redo(store) ==
  IF Len(store.future) = 0 THEN store
  ELSE LET next == Head(store.future)
       IN  [store EXCEPT !.future = Tail(store.future),
                         !.history = Append(store.history, store.state),
                         !.state = next]

\* the state of a freshly mounted hook: one column, no rows
InitialStore ==
  [state |-> [columns |-> <<[id |-> generateColumnId(0), header |-> getColumnName(0)]>>,
              rows |-> <<>>,
              layerIds |-> <<>>,
              layerTypes |-> <<>>,
              sortDirection |-> "reading-order"],
   history |-> <<>>,
   future |-> <<>>,
   counter |-> generateColumnId(0)]

\* a variant of initializeFromLayers that adds no blank column at the end
initializeFromLayers_noBlankColumn(store, layers, direction) ==
  LET sortDirection == IF direction # "" THEN direction ELSE store.state.sortDirection
      sortedLayers == sortLayersByDirection(layers, sortDirection)
      parsedNames == [i \in DOMAIN sortedLayers |-> parseLayerName(sortedLayers[i].name)]
      columnCount == getMaxColumns(parsedNames)
  IN  [store EXCEPT
         !.state = [columns |-> [i \in 1..columnCount |->
                                   [id |-> store.counter + i, header |-> getColumnName(i - 1)]],
                    rows |-> [i \in DOMAIN parsedNames |->
                                padParts(parsedNames[i], columnCount)],
                    layerIds |-> [i \in DOMAIN sortedLayers |-> sortedLayers[i].id],
                    layerTypes |-> [i \in DOMAIN sortedLayers |-> sortedLayers[i].type],
                    sortDirection |-> sortDirection],
         !.counter = store.counter + columnCount]

\* direction is "" when the optional argument is left out
initializeFromLayers(store, layers, direction) ==
  LET sortDirection == IF direction # "" THEN direction ELSE store.state.sortDirection
      sortedLayers == sortLayersByDirection(layers, sortDirection)
      parsedNames == [i \in DOMAIN sortedLayers |-> parseLayerName(sortedLayers[i].name)]
      columnCount == getMaxColumns(parsedNames)
      totalColumns == columnCount + 1
  IN  [store EXCEPT
         !.state = [columns |-> [i \in 1..totalColumns |->
                                   [id |-> store.counter + i, header |-> getColumnName(i - 1)]],
                    rows |-> [i \in DOMAIN parsedNames |->
                                Append(padParts(parsedNames[i], columnCount), <<>>)],
                    layerIds |-> [i \in DOMAIN sortedLayers |-> sortedLayers[i].id],
                    layerTypes |-> [i \in DOMAIN sortedLayers |-> sortedLayers[i].type],
                    sortDirection |-> sortDirection],
         !.counter = store.counter + totalColumns]

\* row is the index of a row of state.rows (a row that does not exist throws
\* a TypeError inside the state updater)
setCellValue(store, row, col, value) ==
  [store EXCEPT
     !.history = saveToHistory(store.history, store.state),
     !.future = <<>>,
     !.state.rows = [@ EXCEPT ![row + 1] = SetIndex(@, col, value)]]

setColumnHeader(store, colIndex, header) ==
  LET old == IF colIndex >= 0 /\ colIndex < Len(store.state.columns)
             THEN store.state.columns[colIndex + 1].id
             ELSE 0  \* {...undefined, header} has no id
  IN  [store EXCEPT
         !.history = saveToHistory(store.history, store.state),
         !.future = <<>>,
         !.state.columns = SetIndex(@, colIndex, [id |-> old, header |-> header])]

\* a variant of addColumn that makes the id from the position of the column
addColumn_positionId(store, afterIndex) ==
  LET column == [id |-> Len(store.state.columns) + 1,
                 header |-> getColumnName(Len(store.state.columns))]
  IN  [store EXCEPT
         !.history = saveToHistory(store.history, store.state),
         !.future = <<>>,
         !.state.columns = Splice(@, afterIndex + 1, column),
         !.state.rows = [i \in DOMAIN @ |->
                           IF @[i] = HoleRow THEN HoleRow
                           ELSE Splice(@[i], afterIndex + 1, <<>>)]]

addColumn(store, afterIndex) ==
  LET column == [id |-> generateColumnId(store.counter),
                 header |-> getColumnName(Len(store.state.columns))]
  IN  [store EXCEPT
         !.history = saveToHistory(store.history, store.state),
         !.future = <<>>,
         !.counter = generateColumnId(store.counter),
         !.state.columns = Splice(@, afterIndex + 1, column),
         !.state.rows = [i \in DOMAIN @ |->
                           IF @[i] = HoleRow THEN HoleRow
                           ELSE Splice(@[i], afterIndex + 1, <<>>)]]

\* a variant of deleteColumn without the test of the last column
deleteColumn_unguarded(store, colIndex) ==
  [store EXCEPT
     !.history = saveToHistory(store.history, store.state),
     !.future = <<>>,
     !.state.columns = FilterIndex(@, colIndex),
     !.state.rows = [i \in DOMAIN @ |->
                       IF @[i] = HoleRow THEN HoleRow ELSE FilterIndex(@[i], colIndex)]]

\* a variant of deleteColumn that saves the history before the test of the
\* last column
deleteColumn_savesFirst(store, colIndex) ==
  IF Len(store.state.columns) <= 1
  THEN [store EXCEPT !.history = saveToHistory(store.history, store.state),
                     !.future = <<>>]
  ELSE [store EXCEPT
          !.history = saveToHistory(store.history, store.state),
          !.future = <<>>,
          !.state.columns = FilterIndex(@, colIndex),
          !.state.rows = [i \in DOMAIN @ |->
                            IF @[i] = HoleRow THEN HoleRow ELSE FilterIndex(@[i], colIndex)]]

deleteColumn(store, colIndex) ==
  IF Len(store.state.columns) <= 1 THEN store
  ELSE [store EXCEPT
          !.history = saveToHistory(store.history, store.state),
          !.future = <<>>,
          !.state.columns = FilterIndex(@, colIndex),
          !.state.rows = [i \in DOMAIN @ |->
                            IF @[i] = HoleRow THEN HoleRow ELSE FilterIndex(@[i], colIndex)]]

\* the position in sortedLayers that newOrderMap gives a layer id: the last
\* one carrying that id (0-based), or -1 for undefined
NewIndex(sortedLayers, layerId) ==
  LET at == {i \in DOMAIN sortedLayers : sortedLayers[i].id = layerId}
  IN  IF at = {} THEN -1 ELSE (CHOOSE i \in at : \A j \in at : j <= i) - 1

\* the old index (1-based) whose data lands on position p (0-based) of the
\* new arrays, 0 when none does: the forEach runs over the old indices in
\* order, so the last one writing p stays
SourceOf(sortedLayers, layerIds, p) ==
  LET from == {i \in DOMAIN layerIds :
                 layerIds[i] # Hole /\ NewIndex(sortedLayers, layerIds[i]) = p}
  IN  IF from = {} THEN 0 ELSE CHOOSE i \in from : \A j \in from : j <= i

\* the length of an array made by new Array(n) once the positions of the set
\* written have been assigned
LengthAfter(n, written) ==
  IF written = {} THEN n
  ELSE Max2(n, 1 + CHOOSE p \in written : \A q \in written : q <= p)

\* a variant of reorderByDirection that moves the rows and the ids and leaves
\* the types where they were
reorderByDirection_keepsTypes(store, layers, direction) ==
  LET prev == store.state
      sortedLayers == sortLayersByDirection(layers, direction)
      written == {NewIndex(sortedLayers, prev.layerIds[i]) :
                    i \in {j \in DOMAIN prev.layerIds : prev.layerIds[j] # Hole}} \ {-1}
      src(p) == SourceOf(sortedLayers, prev.layerIds, p - 1)
  IN  [store EXCEPT
         !.state.rows = [p \in 1..LengthAfter(Len(prev.rows), written) |->
                           IF src(p) = 0 THEN HoleRow ELSE prev.rows[src(p)]],
         !.state.layerIds = [p \in 1..LengthAfter(Len(prev.layerIds), written) |->
                           IF src(p) = 0 THEN Hole ELSE prev.layerIds[src(p)]],
         !.state.sortDirection = direction]

\* a variant of reorderByDirection that is a history event
reorderByDirection_savesToHistory(store, layers, direction) ==
  LET prev == store.state
      sortedLayers == sortLayersByDirection(layers, direction)
      written == {NewIndex(sortedLayers, prev.layerIds[i]) :
                    i \in {j \in DOMAIN prev.layerIds : prev.layerIds[j] # Hole}} \ {-1}
      src(p) == SourceOf(sortedLayers, prev.layerIds, p - 1)
  IN  [store EXCEPT
         !.history = saveToHistory(store.history, prev),
         !.future = <<>>,
         !.state.rows = [p \in 1..LengthAfter(Len(prev.rows), written) |->
                           IF src(p) = 0 THEN HoleRow ELSE prev.rows[src(p)]],
         !.state.layerIds = [p \in 1..LengthAfter(Len(prev.layerIds), written) |->
                           IF src(p) = 0 THEN Hole ELSE prev.layerIds[src(p)]],
         !.state.layerTypes = [p \in 1..LengthAfter(Len(prev.layerTypes), written) |->
                           IF src(p) = 0 THEN Hole ELSE prev.layerTypes[src(p)]],
         !.state.sortDirection = direction]

reorderByDirection(store, layers, direction) ==
  LET prev == store.state
      sortedLayers == sortLayersByDirection(layers, direction)
      written == {NewIndex(sortedLayers, prev.layerIds[i]) :
                    i \in {j \in DOMAIN prev.layerIds : prev.layerIds[j] # Hole}} \ {-1}
      src(p) == SourceOf(sortedLayers, prev.layerIds, p - 1)
  IN  [store EXCEPT
         !.state.rows = [p \in 1..LengthAfter(Len(prev.rows), written) |->
                           IF src(p) = 0 THEN HoleRow ELSE prev.rows[src(p)]],
         !.state.layerIds = [p \in 1..LengthAfter(Len(prev.layerIds), written) |->
                           IF src(p) = 0 THEN Hole ELSE prev.layerIds[src(p)]],
         !.state.layerTypes = [p \in 1..LengthAfter(Len(prev.layerTypes), written) |->
                           IF src(p) = 0 THEN Hole ELSE prev.layerTypes[src(p)]],
         !.state.sortDirection = direction]

\* one entry of the fills of fillCells
Fill(row, col, value) == [row |-> row, col |-> col, value |-> value]

\* the rows after the loop of fillCells over fills; a row that does not exist
\* is skipped
RECURSIVE FillLoop(_, _)
FillLoop(newRows, fills) ==
  IF fills = <<>> THEN newRows
  ELSE LET f == Head(fills) IN
       IF f.row >= 0 /\ f.row < Len(newRows) /\ newRows[f.row + 1] # HoleRow
       THEN FillLoop([newRows EXCEPT ![f.row + 1] = SetIndex(@, f.col, f.value)], Tail(fills))
       ELSE FillLoop(newRows, Tail(fills))

\* a variant of fillCells that leaves the redo stack as it is
fillCells_keepsFuture(store, fills) ==
  [store EXCEPT
     !.history = saveToHistory(store.history, store.state),
     !.state.rows = FillLoop(@, fills)]

fillCells(store, fills) ==
  [store EXCEPT
     !.history = saveToHistory(store.history, store.state),
     !.future = <<>>,
     !.state.rows = FillLoop(@, fills)]

\* row.map(cell => cell === '' ? ' ' : cell).join('')
RECURSIVE JoinRow(_)
JoinRow(row) ==
  IF row = <<>> THEN <<>>
  ELSE (IF Head(row) = <<>> THEN <<" ">> ELSE Head(row)) \o JoinRow(Tail(row))

\* the concatenation of a sequence of sequences
RECURSIVE Flatten(_)
Flatten(seqs) == IF seqs = <<>> THEN <<>> ELSE Head(seqs) \o Flatten(Tail(seqs))

\* rows.map skips the holes of rows
getPreviewNames(state) ==
  [i \in DOMAIN state.rows |->
     IF state.rows[i] = HoleRow THEN Hole ELSE JoinRow(state.rows[i])]

\* a variant of getRenames that joins the cells as they are
getRenames_plainJoin(state) ==
  [i \in DOMAIN state.layerIds |->
     IF state.layerIds[i] = Hole THEN Hole
     ELSE [nodeId |-> state.layerIds[i], newName |-> Flatten(state.rows[i])]]

\* layerIds.map skips the holes of layerIds
getRenames(state) ==
  [i \in DOMAIN state.layerIds |->
     IF state.layerIds[i] = Hole THEN Hole
     ELSE [nodeId |-> state.layerIds[i], newName |-> JoinRow(state.rows[i])]]

\* rows.map(row => state.rows[row]?.[col] ?? '')
CellOr(state, row, col) ==
  IF row >= 0 /\ row < Len(state.rows) /\ col >= 0 /\ col < Len(state.rows[row + 1])
  THEN state.rows[row + 1][col + 1]
  ELSE <<>>

getColumnValues(state, rows, col) == [i \in DOMAIN rows |-> CellOr(state, rows[i], col)]

(* ------------------------------ series -------------------------------- *)

\* the characters with codes 32..126, in code order (the double quote, the
\* backslash and the backtick are written by name)
Ascii ==
  <<" ","!","<quote>","#","$","%","&","'","(",")","*","+",",","-",".","/",
    "0","1","2","3","4","5","6","7","8","9",":",";","<","=",">","?",
    "@","A","B","C","D","E","F","G","H","I","J","K","L","M","N","O",
    "P","Q","R","S","T","U","V","W","X","Y","Z","[","<backslash>","]","^","_",
    "<backtick>","a","b","c","d","e","f","g","h","i","j","k","l","m","n","o",
    "p","q","r","s","t","u","v","w","x","y","z","{","|","}","~">>

\* c.charCodeAt(0) of a character of Ascii
charCodeAt(c) == 31 + IndexOf(Ascii, c)


\* parseInt(s, 10) of a string of digits (exact below 2^53)
RECURSIVE parseInt(_)
parseInt(s) ==
  IF s = <<>> THEN 0
  ELSE 10 * parseInt(SubSeq(s, 1, Len(s) - 1)) + (IndexOf(Digits, s[Len(s)]) - 1)

RECURSIVE DigitsOf(_)
DigitsOf(n) ==
  IF n < 10 THEN <<Digits[n + 1]>>
  ELSE DigitsOf(n \div 10) \o <<Digits[(n % 10) + 1]>>

\* String(n) of an integer
NumberToString(n) == IF n < 0 THEN <<"-">> \o DigitsOf(-n) ELSE DigitsOf(n)

\* s.padStart(targetLength, '0')
padStart(s, targetLength) ==
  IF Len(s) >= targetLength THEN s
  ELSE [i \in 1..(targetLength - Len(s)) |-> "0"] \o s

\* the value of a step, a parse or a cell that the code leaves undefined
NoSeries == [type |-> "null"]

Undefined == <<"undefined">>

\* the last match of /(\d+)/g in v: the 1-based positions of its first and
\* last digit; last is 0 when v has no digit
LastMatch(v) ==
  LET digitsAt == {i \in DOMAIN v : IsDigit(v[i])}
      last == IF digitsAt = {} THEN 0
              ELSE CHOOSE i \in digitsAt : \A j \in digitsAt : j <= i
      first == IF last = 0 THEN 0
               ELSE CHOOSE i \in 1..last :
                      /\ \A j \in i..last : IsDigit(v[j])
                      /\ (i = 1 \/ ~IsDigit(v[i - 1]))
  IN  [first |-> first, last |-> last]

\* the record tryMixedSeries parses a value into, NoSeries for null
ParseMixed(v) ==
  LET m == LastMatch(v) IN
  IF m.last = 0 THEN NoSeries
  ELSE [num |-> parseInt(SubSeq(v, m.first, m.last)),
        padLength |-> m.last - m.first + 1,
        prefix |-> SubSeq(v, 1, m.first - 1),
        suffix |-> SubSeq(v, m.last + 1, Len(v))]

\* the differences of successive numbers
Steps(nums) == [i \in 1..(Len(nums) - 1) |-> nums[i + 1] - nums[i]]

AllEqual(steps) == Len(steps) > 0 /\ \A i \in DOMAIN steps : steps[i] = steps[1]

\* a variant of tryMixedSeries that takes padLength from the last value
tryMixedSeries_lastPadLength(values) ==
  LET parsed == [i \in DOMAIN values |-> ParseMixed(values[i])] IN
  IF \E i \in DOMAIN parsed : parsed[i] = NoSeries THEN NoSeries
  ELSE IF \E i \in DOMAIN parsed :
            parsed[i].prefix # parsed[1].prefix \/ parsed[i].suffix # parsed[1].suffix
  THEN NoSeries
  ELSE LET steps == Steps([i \in DOMAIN parsed |-> parsed[i].num]) IN
       IF AllEqual(steps)
       THEN [type |-> "mixed", values |-> values, step |-> steps[1],
             prefix |-> parsed[1].prefix, suffix |-> parsed[1].suffix,
             padLength |-> parsed[Len(parsed)].padLength]
       ELSE NoSeries

tryMixedSeries(values) ==
  LET parsed == [i \in DOMAIN values |-> ParseMixed(values[i])] IN
  IF \E i \in DOMAIN parsed : parsed[i] = NoSeries THEN NoSeries
  ELSE IF \E i \in DOMAIN parsed :
            parsed[i].prefix # parsed[1].prefix \/ parsed[i].suffix # parsed[1].suffix
  THEN NoSeries
  ELSE LET steps == Steps([i \in DOMAIN parsed |-> parsed[i].num]) IN
       IF AllEqual(steps)
       THEN [type |-> "mixed", values |-> values, step |-> steps[1],
             prefix |-> parsed[1].prefix, suffix |-> parsed[1].suffix,
             padLength |-> parsed[1].padLength]
       ELSE NoSeries

\* /^(\d+)$/
IsDigitString(v) == Len(v) > 0 /\ \A i \in DOMAIN v : IsDigit(v[i])

tryNumericSeries(values) ==
  IF \E i \in DOMAIN values : ~IsDigitString(values[i]) THEN NoSeries
  ELSE LET steps == Steps([i \in DOMAIN values |-> parseInt(values[i])]) IN
       IF AllEqual(steps)
       THEN [type |-> "numeric", values |-> values, step |-> steps[1]]
       ELSE NoSeries

tryAlphabeticSeries(values) ==
  IF \E i \in DOMAIN values : ~(Len(values[i]) = 1 /\ IsLetter(values[i][1])) THEN NoSeries
  ELSE LET steps == Steps([i \in DOMAIN values |-> charCodeAt(values[i][1])]) IN
       IF AllEqual(steps)
       THEN [type |-> "alphabetic", values |-> values, step |-> steps[1]]
       ELSE NoSeries

detectSeries(values) ==
  IF Len(values) = 0 THEN [type |-> "constant", values |-> <<>>, step |-> 0]
  ELSE IF Len(values) = 1 THEN [type |-> "constant", values |-> values, step |-> 0]
  ELSE LET mixedResult == tryMixedSeries(values)
           numericResult == tryNumericSeries(values)
           alphaResult == tryAlphabeticSeries(values)
       IN  IF mixedResult # NoSeries THEN mixedResult
           ELSE IF numericResult # NoSeries THEN numericResult
           ELSE IF alphaResult # NoSeries THEN alphaResult
           ELSE [type |-> "constant", values |-> values, step |-> 0]

\* the character codes the alphabetic branch pushes, from lastCode on
RECURSIVE AlphabeticLoop(_, _, _, _)
AlphabeticLoop(lastCode, step, isUpperCase, count) ==
  IF count <= 0 THEN <<>>
  ELSE LET \* the wrap of the stepped code into A..Z or a..z: two tests in turn
           lo == IF isUpperCase THEN 65 ELSE 97
           hi == IF isUpperCase THEN 90 ELSE 122
           code == lastCode + step
           c1 == IF code > hi THEN lo + (code - (hi + 1)) ELSE code
           next == IF c1 < lo THEN hi - ((lo - 1) - c1) ELSE c1
           \* String.fromCharCode(next): a code outside 32..126 gives a character
           \* that is no letter, written here by its code unit
           char == IF next >= 32 /\ next <= 126 THEN Ascii[next - 31]
                   ELSE "<u+" \o ToString(next % 65536) \o ">"
       IN  <<<<char>>>> \o AlphabeticLoop(next, step, isUpperCase, count - 1)

\* a variant of continueSeries that repeats the first value of a constant series
continueSeries_repeatsFirst(series, count) ==
  LET n == IF count < 0 THEN 0 ELSE count IN
  IF series.type = "constant" THEN
    [i \in 1..n |-> IF Len(series.values) = 0 THEN Undefined
                    ELSE series.values[1]]
  ELSE IF series.type = "numeric" THEN
    LET lastValue == series.values[Len(series.values)]
        lastNum == parseInt(lastValue)
        padLength == Len(lastValue)
    IN  [i \in 1..n |-> padStart(NumberToString(lastNum + series.step * i), padLength)]
  ELSE IF series.type = "alphabetic" THEN
    LET lastChar == series.values[Len(series.values)]
    IN  AlphabeticLoop(charCodeAt(lastChar[1]), series.step, IsUpper(lastChar[1]), n)
  ELSE IF series.type = "mixed" THEN
    LET lastValue == series.values[Len(series.values)]
        m == LastMatch(lastValue)
        lastNum == parseInt(SubSeq(lastValue, m.first, m.last))
        padLength == IF series.padLength # 0 THEN series.padLength ELSE m.last - m.first + 1
    IN  [i \in 1..n |->
           series.prefix
             \o padStart(NumberToString(Max2(0, lastNum + series.step * i)), padLength)
             \o series.suffix]
  ELSE <<>>

continueSeries(series, count) ==
  LET n == IF count < 0 THEN 0 ELSE count IN
  IF series.type = "constant" THEN
    [i \in 1..n |-> IF Len(series.values) = 0 THEN Undefined
                    ELSE series.values[((i - 1) % Max2(1, Len(series.values))) + 1]]
  ELSE IF series.type = "numeric" THEN
    LET lastValue == series.values[Len(series.values)]
        lastNum == parseInt(lastValue)
        padLength == Len(lastValue)
    IN  [i \in 1..n |-> padStart(NumberToString(lastNum + series.step * i), padLength)]
  ELSE IF series.type = "alphabetic" THEN
    LET lastChar == series.values[Len(series.values)]
    IN  AlphabeticLoop(charCodeAt(lastChar[1]), series.step, IsUpper(lastChar[1]), n)
  ELSE IF series.type = "mixed" THEN
    LET lastValue == series.values[Len(series.values)]
        m == LastMatch(lastValue)
        lastNum == parseInt(SubSeq(lastValue, m.first, m.last))
        padLength == IF series.padLength # 0 THEN series.padLength ELSE m.last - m.first + 1
    IN  [i \in 1..n |->
           series.prefix
             \o padStart(NumberToString(Max2(0, lastNum + series.step * i)), padLength)
             \o series.suffix]
  ELSE <<>>

(* ------------------------------ controller ---------------------------- *)

\* null for a selection, an editing cell and a drag target
NoSelection == [none |-> "selection"]

NoCell == [none |-> "cell"]

NoTarget == -1

Selection(startRow, startCol, endRow, endCol) ==
  [startRow |-> startRow, startCol |-> startCol, endRow |-> endRow, endCol |-> endCol]

getNormalizedSelection(sel) ==
  IF sel = NoSelection THEN NoSelection
  ELSE Selection(Min2(sel.startRow, sel.endRow), Min2(sel.startCol, sel.endCol),
                 Max2(sel.startRow, sel.endRow), Max2(sel.startCol, sel.endCol))

\* from, from+1, ..., to as a sequence
Ascending(from, to) == [k \in 1..(to - from + 1) |-> from + k - 1]

\* the rows (or columns) a drag to target fills, nearest first
Targets(start, end, target) ==
  IF target > end THEN [k \in 1..(target - end) |-> end + k]
  ELSE IF target < start THEN [k \in 1..(start - target) |-> start - k]
  ELSE <<>>

isVerticalDrag(sel, targetRow) ==
  targetRow # NoTarget /\ (targetRow < sel.startRow \/ targetRow > sel.endRow)

isHorizontalDrag(sel, targetCol) ==
  targetCol # NoTarget /\ (targetCol < sel.startCol \/ targetCol > sel.endCol)

\* a variant of VerticalFills that continues each column from its last
\* selected row alone
VerticalFills_lastRowOnly(state, sel, targetRow) ==
  LET targetRows == Targets(sel.startRow, sel.endRow, targetRow) IN
  Flatten([c \in 1..(sel.endCol - sel.startCol + 1) |->
    LET col == sel.startCol + c - 1
        sourceValues == getColumnValues(state, <<sel.endRow>>, col)
        newValues == continueSeries(detectSeries(sourceValues), Len(targetRows))
    IN  [idx \in DOMAIN targetRows |-> Fill(targetRows[idx], col, newValues[idx])]])

\* the fills of the vertical branch: column by column, each continued from
\* the series of its selected rows
VerticalFills(state, sel, targetRow) ==
  LET targetRows == Targets(sel.startRow, sel.endRow, targetRow) IN
  Flatten([c \in 1..(sel.endCol - sel.startCol + 1) |->
    LET col == sel.startCol + c - 1
        sourceValues == getColumnValues(state, Ascending(sel.startRow, sel.endRow), col)
        newValues == continueSeries(detectSeries(sourceValues), Len(targetRows))
    IN  [idx \in DOMAIN targetRows |-> Fill(targetRows[idx], col, newValues[idx])]])

HorizontalFills(state, sel, targetCol) ==
  LET targetCols == Targets(sel.startCol, sel.endCol, targetCol) IN
  Flatten([r \in 1..(sel.endRow - sel.startRow + 1) |->
    LET row == sel.startRow + r - 1
        sourceCols == Ascending(sel.startCol, sel.endCol)
        \* getRowValues: cols.map(col => state.rows[row]?.[col] ?? '')
        sourceValues == [i \in DOMAIN sourceCols |-> CellOr(state, row, sourceCols[i])]
        newValues == continueSeries(detectSeries(sourceValues), Len(targetCols))
    IN  [idx \in DOMAIN targetCols |-> Fill(row, targetCols[idx], newValues[idx])]])

\* the fills applyDragFill computes: of the vertical branch, of the horizontal
\* branch, or none
DragFills(state, selection, targetRow, targetCol) ==
  LET sel == getNormalizedSelection(selection) IN
  IF sel = NoSelection THEN <<>>
  ELSE IF isVerticalDrag(sel, targetRow) /\ ~isHorizontalDrag(sel, targetCol)
  THEN VerticalFills(state, sel, targetRow)
  ELSE IF isHorizontalDrag(sel, targetCol) /\ ~isVerticalDrag(sel, targetRow)
  THEN HorizontalFills(state, sel, targetCol)
  ELSE <<>>

\* a variant of applyDragFill that hands its fills to fillCells in two calls,
\* the first fill apart from the others
applyDragFill_twoCalls(store, selection, targetRow, targetCol) ==
  LET onFillCells(fills) ==
        IF fills = <<>> THEN [store |-> store, selection |-> selection, fills |-> fills]
        ELSE [store |-> fillCells(fillCells(store, <<Head(fills)>>), Tail(fills)),
              fills |-> fills,
              selection |-> selection]
  IN  onFillCells(DragFills(store.state, selection, targetRow, targetCol))

\* the store and the selection after applyDragFill, with the fills it made
applyDragFill(store, selection, targetRow, targetCol) ==
  LET sel == getNormalizedSelection(selection)
      onFillCells(fills) ==
        IF fills = <<>> THEN [store |-> store, selection |-> selection, fills |-> fills]
        ELSE [store |-> fillCells(store, fills),
              fills |-> fills,
              selection |->
                IF isVerticalDrag(sel, targetRow) /\ ~isHorizontalDrag(sel, targetCol)
                THEN IF targetRow > sel.endRow THEN [sel EXCEPT !.endRow = targetRow]
                     ELSE [sel EXCEPT !.startRow = targetRow]
                ELSE IF targetCol > sel.endCol THEN [sel EXCEPT !.endCol = targetCol]
                     ELSE [sel EXCEPT !.startCol = targetCol]]
  IN  onFillCells(DragFills(store.state, selection, targetRow, targetCol))

\* s.split(sep) for a one-character separator
RECURSIVE SplitLoop(_, _, _)
SplitLoop(s, sep, current) ==
  IF s = <<>> THEN <<current>>
  ELSE IF Head(s) = sep THEN <<current>> \o SplitLoop(Tail(s), sep, <<>>)
  ELSE SplitLoop(Tail(s), sep, Append(current, Head(s)))

Split(s, sep) == SplitLoop(s, sep, <<>>)

\* lines.filter(line => line.length > 0)
RECURSIVE FilterNonEmpty(_)
FilterNonEmpty(lines) ==
  IF lines = <<>> THEN <<>>
  ELSE IF Len(Head(lines)) > 0 THEN <<Head(lines)>> \o FilterNonEmpty(Tail(lines))
  ELSE FilterNonEmpty(Tail(lines))

WhitespaceChars == {" ", "\t", "\n", "\r"}

\* s.trim()
RECURSIVE trim(_)
trim(s) ==
  IF s = <<>> THEN s
  ELSE IF Head(s) \in WhitespaceChars THEN trim(Tail(s))
  ELSE IF s[Len(s)] \in WhitespaceChars THEN trim(SubSeq(s, 1, Len(s) - 1))
  ELSE s

\* the fills handleContainerPaste computes: the pasted cells that land inside
\* the grid, line by line
PasteFills(state, selection, pasteData) ==
  LET \* pasteData.split(/\r?\n/): a carriage return just before a line feed
      \* belongs to the separator
      segments == Split(pasteData, "\n")
      splitLines == [i \in DOMAIN segments |->
                       IF /\ i < Len(segments) /\ segments[i] # <<>>
                          /\ segments[i][Len(segments[i])] = "\r"
                       THEN SubSeq(segments[i], 1, Len(segments[i]) - 1)
                       ELSE segments[i]]
      lines == FilterNonEmpty(splitLines)
      data == [i \in DOMAIN lines |-> Split(lines[i], "\t")]
      sel == IF selection # NoSelection THEN getNormalizedSelection(selection)
             ELSE Selection(0, 0, 0, 0)
      Keep(fills) == SelectSeq(fills, LAMBDA f : f.row < Len(state.rows)
                                                   /\ f.col < Len(state.columns))
  IN  Keep(Flatten([rowOffset \in DOMAIN data |->
             [colOffset \in DOMAIN data[rowOffset] |->
                Fill(sel.startRow + rowOffset - 1, sel.startCol + colOffset - 1,
                     trim(data[rowOffset][colOffset]))]]))

\* the store and the selection after handleContainerPaste, with the fills it
\* made
handleContainerPaste(store, selection, pasteData) ==
  IF pasteData = <<>> THEN [store |-> store, selection |-> selection, fills |-> <<>>]
  ELSE LET onFillCells(fills) ==
             [store |-> IF fills # <<>> THEN fillCells(store, fills) ELSE store,
              fills |-> fills,
              selection |-> IF selection = NoSelection THEN Selection(0, 0, 0, 0) ELSE selection]
       IN  onFillCells(PasteFills(store.state, selection, pasteData))

\* null for the clipboard
NoClipboard == [none |-> "clipboard"]

\* the rows copySelectedCells puts on the clipboard
copySelectedCells(state, selection) ==
  LET sel == getNormalizedSelection(selection) IN
  [r \in 1..(sel.endRow - sel.startRow + 1) |->
     [c \in 1..(sel.endCol - sel.startCol + 1) |->
        CellOr(state, sel.startRow + r - 1, sel.startCol + c - 1)]]

\* data.map(row => row.join('\t')).join('\n'): the text written to the system
\* clipboard
RECURSIVE Join(_, _)
Join(parts, sep) ==
  IF parts = <<>> THEN <<>>
  ELSE IF Len(parts) = 1 THEN parts[1]
  ELSE parts[1] \o <<sep>> \o Join(Tail(parts), sep)

ClipboardText(data) == Join([r \in DOMAIN data |-> Join(data[r], "\t")], "\n")

(* ------------------------------ state machine -------------------------- *)

VARIABLES
  state,            \* the hook's React state, a BatchGridState
  historyRef,       \* historyRef.current, the undo stack
  futureRef,        \* futureRef.current, the redo stack
  columnIdCounter,  \* the module-level counter behind generateColumnId
  layers,           \* the layers prop of BatchRename
  opCount,          \* the store calls made so far that wrote the state
  lastOp,           \* the last call made: its name and arguments
  selection,        \* BatchGrid: the selected rectangle, or NoSelection
  isSelecting,      \* BatchGrid: a selection is being dragged out
  isDraggingFill,   \* BatchGrid: the fill handle is being dragged
  dragTargetRow,    \* BatchGrid: the row under the dragged handle, or NoTarget
  dragTargetCol,    \* BatchGrid: the column under it, or NoTarget
  editingCell,      \* BatchGrid: the cell in edit mode, or NoCell
  clipboard,        \* BatchGrid: the rows copied last (in a record), or NoClipboard
  isCut,            \* BatchGrid: the copy was a cut
  cutSelection,     \* the rectangle that was cut last (history, not read by the code)
  inputValue,       \* App: the text of the quick-mode input
  timeoutRef,       \* useDebounce: the arguments of the pending callback, or NoTimer
  posted,           \* the messages App has posted to the plugin, in order
  scrollIntervalYRef, \* BatchGrid: the id of the vertical auto-scroll interval, 0 for null
  scrollIntervalXRef, \* BatchGrid: the id of the horizontal one, 0 for null
  intervals,        \* the window's running intervals, each an axis and an id
  isSelectingRef,   \* BatchGrid: isSelecting as the ref sync effect copied it last
  isDraggingFillRef, \* BatchGrid: isDraggingFill as the ref sync effect copied it last
  mounted,          \* BatchGrid is mounted: its document listeners are attached
  highlights,       \* plugin: the ids of the highlight rectangles on the page
  highlightNodeId,  \* plugin: the plugin data 'highlightNodeId', 0 for ''
  inFlight,         \* plugin: the showLayerHighlight calls waiting for their node
  rectangles        \* plugin: the rectangles created so far

\* the state of BatchGrid
grid == <<selection, isSelecting, isDraggingFill, dragTargetRow, dragTargetCol, editingCell,
         clipboard, isCut, cutSelection>>

\* the state of App in quick mode
quick == <<inputValue, timeoutRef, posted>>

\* the auto-scroll of BatchGrid
scroll == <<scrollIntervalYRef, scrollIntervalXRef, intervals, isSelectingRef,
           isDraggingFillRef, mounted>>

\* the highlight of the plugin
page == <<highlights, highlightNodeId, inFlight, rectangles>>

vars == <<state, historyRef, futureRef, columnIdCounter, layers, opCount, lastOp, grid, quick,
         scroll, page>>

Store == [state |-> state, history |-> historyRef, future |-> futureRef,
          counter |-> columnIdCounter]

StoreNext == [state |-> state', history |-> historyRef', future |-> futureRef',
              counter |-> columnIdCounter']

Becomes(store) ==
  /\ state' = store.state
  /\ historyRef' = store.history
  /\ futureRef' = store.future
  /\ columnIdCounter' = store.counter

Op(name, a, b) == [op |-> name, a |-> a, b |-> b]

\* the store calls of one behaviour that write the state
MaxOps == 2

\* inputs
Layer(id, name, x, y, type) == [id |-> id, name |-> name, x |-> x, y |-> y, type |-> type]

LayerA == Layer("L1", <<"a", "1">>, 30, 0, "frame")

LayerB == Layer("L2", <<"b">>, 0, 30, "text")

LayerLists ==
  { <<LayerB>>, <<LayerA, LayerB>>, <<LayerB, LayerA>>,
    <<LayerA, LayerB, Layer("L3", <<"c">>, 0, 0, "vector")>> }

\* the indices of an array of n elements tried as arguments: the first, the
\* last, and the ones just outside
IndexInputs(n) == {-1, 0, n - 1, n}

\* the timer that is not pending
NoTimer == [none |-> "timer"]

\* BatchGrid after its first effects: the first cell is selected
GridMounted ==
  /\ selection = Selection(0, 0, 0, 0)
  /\ isSelecting = FALSE
  /\ isDraggingFill = FALSE
  /\ dragTargetRow = NoTarget
  /\ dragTargetCol = NoTarget
  /\ editingCell = NoCell
  /\ clipboard = NoClipboard
  /\ isCut = FALSE
  /\ cutSelection = NoSelection
  /\ scrollIntervalYRef = 0
  /\ scrollIntervalXRef = 0
  /\ intervals = {}
  /\ isSelectingRef = FALSE
  /\ isDraggingFillRef = FALSE
  /\ mounted = TRUE

\* App after its first render: an empty input, no timer, nothing posted
QuickMounted ==
  /\ inputValue = <<>>
  /\ timeoutRef = NoTimer
  /\ posted = <<>>

\* BatchRename mounts with its layers and its effect initializes the grid
Init ==
  \E ls \in LayerLists :
    LET store == initializeFromLayers(InitialStore, ls, "reading-order") IN
    /\ state = store.state
    /\ historyRef = store.history
    /\ futureRef = store.future
    /\ columnIdCounter = store.counter
    /\ layers = ls
    /\ opCount = 0
    /\ lastOp = Op("initializeFromLayers", 0, 0)
    /\ GridMounted
    /\ QuickMounted
    /\ highlights = {}  \* the plugin has started: no highlight, no call in flight
    /\ highlightNodeId = 0
    /\ inFlight = <<>>
    /\ rectangles = 0

\* a store call that writes the state: counted against MaxOps
Charged(store, op) ==
  /\ opCount < MaxOps
  /\ Becomes(store)
  /\ opCount' = opCount + 1
  /\ lastOp' = op

\* a call that is not counted against MaxOps
Free(store, op) ==
  /\ Becomes(store)
  /\ opCount' = opCount
  /\ lastOp' = op

\* the layers prop changes and the effect of BatchRename initializes the grid
InitializeFromLayers ==
  \E ls \in LayerLists :
    /\ Charged(initializeFromLayers(Store, ls, "reading-order"),
               Op("initializeFromLayers", 0, 0))
    /\ layers' = ls
    /\ UNCHANGED <<grid, quick, scroll, page>>

SetCellValue ==
  \E row \in {r \in 0..(Len(state.rows) - 1) : state.rows[r + 1] # HoleRow},
     value \in {<<"x">>} :
    \E col \in {0, Len(state.rows[row + 1])} :
      /\ Charged(setCellValue(Store, row, col, value), Op("setCellValue", row, col))
      /\ UNCHANGED <<layers, grid, quick, scroll, page>>

SetColumnHeader ==
  \E colIndex \in IndexInputs(Len(state.columns)) \ {Len(state.columns) - 1},
     header \in {<<"H">>} :
    /\ Charged(setColumnHeader(Store, colIndex, header), Op("setColumnHeader", colIndex, 0))
    /\ UNCHANGED <<layers, grid, quick, scroll, page>>

\* the add buttons of the header row: before the first column and after each
AddColumn ==
  \E afterIndex \in -1..(Len(state.columns) - 1) :
    /\ Charged(addColumn(Store, afterIndex), Op("addColumn", afterIndex, 0))
    /\ UNCHANGED <<layers, grid, quick, scroll, page>>

DeleteColumn ==
  \E colIndex \in IndexInputs(Len(state.columns)) \ {-1} :
    /\ IF Len(state.columns) <= 1
       THEN Free(deleteColumn(Store, colIndex), Op("deleteColumn", colIndex, 0))
       ELSE Charged(deleteColumn(Store, colIndex), Op("deleteColumn", colIndex, 0))
    /\ UNCHANGED <<layers, grid, quick, scroll, page>>

FillCells ==
  \E fills \in { <<Fill(0, 1, <<"x">>), Fill(1, 0, <<"y">>)>>,
                 <<Fill(2, 0, <<"x">>), Fill(0, 0, <<"y">>), Fill(0, 0, <<>>)>> } :
    /\ Charged(fillCells(Store, fills), Op("fillCells", 0, 0))
    /\ UNCHANGED <<layers, grid, quick, scroll, page>>

\* handleDirectionChange of BatchRename
ReorderByDirection ==
  \E direction \in Directions :
    /\ Charged(reorderByDirection(Store, layers, direction), Op("reorderByDirection", 0, 0))
    /\ UNCHANGED <<layers, grid, quick, scroll, page>>

Undo ==
  /\ Free(undo(Store), Op("undo", 0, 0))
  /\ UNCHANGED <<layers, grid, quick, scroll, page>>

Redo ==
  /\ Free(redo(Store), Op("redo", 0, 0))
  /\ UNCHANGED <<layers, grid, quick, scroll, page>>

Spec ==
  Init /\ [][\/ InitializeFromLayers
             \/ SetCellValue
             \/ SetColumnHeader
             \/ AddColumn
             \/ DeleteColumn
             \/ FillCells
             \/ ReorderByDirection
             \/ Undo
             \/ Redo]_vars

\* the store under addColumn, deleteColumn and setCellValue alone
SpecEdit == Init /\ [][AddColumn \/ DeleteColumn \/ SetCellValue]_vars

\* the store under a long run of edits of one cell, each value typed differing
\* from the one in the cell, with undo and redo
InitHist == Init /\ layers = <<LayerB>>

TypeCell ==
  \E value \in {<<"x">>, <<"y">>} :
    /\ value # state.rows[1][1]
    /\ Free(setCellValue(Store, 0, 0, value), Op("setCellValue", 0, 0))
    /\ UNCHANGED <<layers, grid, quick, scroll, page>>

SpecHist == InitHist /\ [][TypeCell \/ Undo \/ Redo]_vars

\* the grid under the mouse, the clipboard and the undo and redo keys
\* 'i1' and 'i2' on two lines; three cells on a line and, after an empty
\* line, 'p' and ' q'; a line feed alone
PasteInputs ==
  { <<"i", "1", "\n", "i", "2">>,
    <<"r", "\t", "s", "\t", "t", "\r", "\n", "\n", "p", "\t", " ", "q">>,
    <<"\n">> }

InitGrid ==
  LET GridLayers == << Layer("L1", <<"1">>, 0, 0, "frame"),
                       Layer("L2", <<"2">>, 0, 100, "text"),
                       Layer("L3", <<"b">>, 0, 200, "vector") >>
      store == initializeFromLayers(InitialStore, GridLayers, "reading-order")
  IN
  /\ state = store.state
  /\ historyRef = store.history
  /\ futureRef = store.future
  /\ columnIdCounter = store.counter
  /\ layers = GridLayers
  /\ opCount = 0
  /\ lastOp = Op("initializeFromLayers", 0, 0)
  /\ GridMounted
  /\ QuickMounted
  /\ highlights = {}
  /\ highlightNodeId = 0
  /\ inFlight = <<>>
  /\ rectangles = 0

\* the drag fills and pastes of one behaviour that write cells
MaxFills == 1

\* a handler of BatchGrid that leaves the store alone
Handler(name, row, col) ==
  /\ lastOp' = Op(name, row, col)
  /\ UNCHANGED <<state, historyRef, futureRef, columnIdCounter, layers, opCount, quick, scroll, page>>
  /\ UNCHANGED <<clipboard, isCut, cutSelection>>

\* a handler that may call fillCells: counted against MaxFills when it does
Filling(store, name, fills) ==
  /\ store # Store => opCount < MaxFills
  /\ Becomes(store)
  /\ opCount' = IF store # Store THEN opCount + 1 ELSE opCount
  /\ lastOp' = Op(name, Len(fills), 0)
  /\ UNCHANGED <<layers, clipboard, isCut, cutSelection, quick, scroll, page>>

\* the effect of GridCell that runs when its cell enters edit mode: the caret
\* goes behind the text in mode 'typing', and the whole text is selected
\* otherwise
FocusEffect(editMode) == IF editMode = "typing" THEN "caret at end" ELSE "select all"

\* a press of the mouse button on a cell; the button is up before it
HandleCellMouseDown ==
  \E cell \in {<<0, 0>>, <<1, 0>>}, shiftKey \in BOOLEAN :
    LET row == cell[1]
        col == cell[2]
        sel == getNormalizedSelection(selection)
    IN
    /\ ~isSelecting /\ ~isDraggingFill
    /\ row < Len(state.rows) /\ col < Len(state.rows[row + 1])
    /\ IF sel = Selection(row, col, row, col)
       THEN /\ editingCell' = [row |-> row, col |-> col, mode |-> "doubleclick"]
            /\ UNCHANGED <<selection, isSelecting>>
       ELSE /\ editingCell' = NoCell
            /\ IF shiftKey /\ selection # NoSelection
               THEN /\ selection' = [selection EXCEPT !.endRow = row, !.endCol = col]
                    /\ UNCHANGED isSelecting
               ELSE /\ selection' = Selection(row, col, row, col)
                    /\ isSelecting' = TRUE
    /\ UNCHANGED <<isDraggingFill, dragTargetRow, dragTargetCol>>
    /\ Handler("handleCellMouseDown", row, col)

\* the pointer enters a cell
HandleCellMouseEnter ==
  \E cell \in {<<0, 0>>, <<2, 0>>, <<1, 1>>} :
    /\ cell[1] < Len(state.rows) /\ cell[2] < Len(state.rows[cell[1] + 1])
    /\ selection' = IF isSelecting /\ selection # NoSelection
                    THEN [selection EXCEPT !.endRow = cell[1], !.endCol = cell[2]]
                    ELSE selection
    /\ dragTargetRow' = IF isDraggingFill THEN cell[1] ELSE dragTargetRow
    /\ UNCHANGED <<isSelecting, isDraggingFill, dragTargetCol, editingCell>>
    /\ Handler("handleCellMouseEnter", 0, 0)

\* the pointer moves over a cell while a selection or the handle is dragged
HandleMouseMove ==
  \E cell \in {<<0, 0>>, <<2, 0>>, <<1, 1>>} :
    /\ cell[1] < Len(state.rows) /\ cell[2] < Len(state.rows[cell[1] + 1])
    /\ isDraggingFill \/ isSelecting
    /\ dragTargetRow' = IF isDraggingFill THEN cell[1] ELSE dragTargetRow
    /\ dragTargetCol' = IF isDraggingFill THEN cell[2] ELSE dragTargetCol
    /\ selection' = IF isSelecting /\ selection # NoSelection
                    THEN [selection EXCEPT !.endRow = cell[1], !.endCol = cell[2]]
                    ELSE selection
    /\ UNCHANGED <<isSelecting, isDraggingFill, editingCell>>
    /\ Handler("handleMouseMove", 0, 0)

\* a press on the fill handle of the selection's corner cell
HandleDragHandleMouseDown ==
  LET sel == getNormalizedSelection(selection) IN
  /\ ~isSelecting /\ ~isDraggingFill
  /\ selection # NoSelection
  /\ isDraggingFill' = TRUE
  /\ dragTargetRow' = sel.endRow
  /\ dragTargetCol' = sel.endCol
  /\ UNCHANGED <<selection, isSelecting, editingCell>>
  /\ Handler("handleDragHandleMouseDown", 0, 0)

\* the release of the mouse button: ends a selection, applies a drag fill
HandleMouseUp ==
  /\ isSelecting' = FALSE
  /\ IF isDraggingFill
     THEN \E after \in {applyDragFill(Store, selection, dragTargetRow, dragTargetCol)} :
          /\ Filling(after.store, "applyDragFill", after.fills)
          /\ selection' = after.selection
          /\ isDraggingFill' = FALSE
          /\ dragTargetRow' = NoTarget
          /\ dragTargetCol' = NoTarget
     ELSE /\ Handler("handleMouseUp", 0, 0)
          /\ UNCHANGED <<selection, isDraggingFill, dragTargetRow, dragTargetCol>>
  /\ UNCHANGED editingCell

\* a paste event on the grid
HandleContainerPaste ==
  \E pasteData \in PasteInputs :
    \E after \in {handleContainerPaste(Store, selection, pasteData)} :
    /\ Filling(after.store, "handleContainerPaste", after.fills)
    /\ selection' = after.selection
    /\ UNCHANGED <<isSelecting, isDraggingFill, dragTargetRow, dragTargetCol, editingCell>>

SpecGrid ==
  InitGrid /\ [][\/ HandleCellMouseDown
                 \/ HandleCellMouseEnter
                 \/ HandleMouseMove
                 \/ HandleDragHandleMouseDown
                 \/ HandleMouseUp
                 \/ HandleContainerPaste
                 \/ Undo
                 \/ Redo]_vars

(* ------------------------------ properties ----------------------------- *)

IdsOf(ls) == [i \in DOMAIN ls |-> ls[i].id]

\* the calls that record history
MutatingOps == {"setCellValue", "setColumnHeader", "addColumn", "deleteColumn", "fillCells"}

\* the step is a call of a mutating operation that was not refused
Mutation ==
  /\ lastOp'.op \in MutatingOps
  /\ lastOp'.op = "deleteColumn" => Len(state.columns) > 1

\* C1: after any sequence of addColumn, deleteColumn and setCellValue calls on
\* an initialized grid every row has columns.length cells, and rows, layerIds
\* and layerTypes have the same length.
C1_GridInvariant ==
  /\ \A i \in DOMAIN state.rows : Len(state.rows[i]) = Len(state.columns)
  /\ Len(state.rows) = Len(state.layerIds)
  /\ Len(state.layerIds) = Len(state.layerTypes)

\* C2: undo right after a mutating operation gives back the state before it,
\* and redo right after that undo gives back the state the operation made.
C2_UndoRedoRoundTrip ==
  [][Mutation =>
       /\ undo(StoreNext).state = state
       /\ redo(undo(StoreNext)) = StoreNext]_vars

C2_Witness ==
  /\ lastOp.op \in MutatingOps
  /\ Len(historyRef) > 0
  /\ historyRef[Len(historyRef)] # state

\* C3: every mutating operation pushes the state before it onto the undo stack
\* and empties the redo stack, so that redo right after it changes nothing.
C3_MutationRecordsHistory ==
  [][Mutation =>
       /\ Len(historyRef') > 0
       /\ historyRef'[Len(historyRef')] = state
       /\ SubSeq(historyRef', 1, Len(historyRef') - 1)
            = SliceLast(historyRef, Len(historyRef') - 1)
       /\ futureRef' = <<>>
       /\ redo(StoreNext) = StoreNext]_vars

\* a mutation made after an undo: two calls were counted, one entry is left
C3_Witness ==
  /\ lastOp.op \in MutatingOps
  /\ opCount = 2
  /\ Len(historyRef) = 1
  /\ futureRef = <<>>
  /\ layers = <<LayerB>>
  /\ state.sortDirection = "reading-order"
  /\ columnIdCounter > 3

\* C4: the undo stack and the redo stack never hold more than 50 states, and a
\* mutation made when the undo stack holds 50 drops the oldest entry only: the
\* other 49 keep their order and the state before the mutation comes last.
C4_StacksBounded ==
  /\ [](Len(historyRef) <= 50 /\ Len(futureRef) <= 50)
  /\ [][(Mutation /\ Len(historyRef) = 50) =>
          historyRef' = Append(Tail(historyRef), state)]_vars

\* the undo stack is full and its oldest entry is an edited grid: the grid as
\* initialized has been dropped
C4_Witness ==
  /\ lastOp.op = "setCellValue"
  /\ Len(historyRef) = 50
  /\ historyRef[1].rows[1][1] \in {<<"x">>, <<"y">>}
  /\ historyRef[1] # historyRef[2]

\* C5: the grid always has at least one column.
C5_AtLeastOneColumn == Len(state.columns) >= 1

C5_Witness ==
  /\ lastOp.op = "deleteColumn"
  /\ Len(state.columns) = 1

\* C6: deleteColumn on a grid of one column changes nothing: not the state, not
\* the undo stack, not the redo stack.
C6_RefusedDelete ==
  [][(lastOp'.op = "deleteColumn" /\ Len(state.columns) = 1) =>
       /\ state' = state
       /\ historyRef' = historyRef
       /\ futureRef' = futureRef]_vars

\* a delete made on one column: the newest snapshot has one column too, so
\* this delete pushed nothing
C6_Witness ==
  /\ lastOp.op = "deleteColumn"
  /\ Len(state.columns) = 1
  /\ Len(historyRef) > 0
  /\ Len(historyRef[Len(historyRef)].columns) = 1

\* C7: setColumnHeader with an index outside 0..columns.length-1 leaves the
\* column list and the rows as they are, so the rows keep the length of the
\* column list.
C7_HeaderOutOfRange ==
  [][(lastOp'.op = "setColumnHeader"
        /\ (lastOp'.a < 0 \/ lastOp'.a >= Len(state.columns))) =>
       /\ state'.columns = state.columns
       /\ state'.rows = state.rows
       /\ ((\A i \in DOMAIN state.rows : Len(state.rows[i]) = Len(state.columns))
             => \A i \in DOMAIN state'.rows : Len(state'.rows[i]) = Len(state'.columns))]_vars

\* seq with x put in at 0-based position pos
InsertedAt(seq, pos, x) == SubSeq(seq, 1, pos) \o <<x>> \o SubSeq(seq, pos + 1, Len(seq))

\* C8: addColumn(afterIndex) with -1 <= afterIndex < columns.length puts one
\* new column at position afterIndex+1 of the column list and '' at that
\* position of every row, and keeps every other column and cell, in order.
C8_AddColumnInserts ==
  [][(lastOp'.op = "addColumn" /\ lastOp'.a >= -1 /\ lastOp'.a < Len(state.columns)) =>
       /\ Len(state'.columns) = Len(state.columns) + 1
       /\ state'.columns = InsertedAt(state.columns, lastOp'.a + 1,
                                      state'.columns[lastOp'.a + 2])
       /\ Len(state'.rows) = Len(state.rows)
       /\ \A i \in DOMAIN state.rows :
            /\ lastOp'.a + 1 <= Len(state.rows[i])
            /\ state'.rows[i] = InsertedAt(state.rows[i], lastOp'.a + 1, <<>>)]_vars

\* C9: a drag-fill release and a paste that write cells push one history
\* entry, the state before, and undo right after gives that state back, every
\* cell as it was; one that writes no cell leaves grid and history alone.
C9_FillIsOneEntry ==
  [][(lastOp'.op \in {"applyDragFill", "handleContainerPaste"}) =>
       IF lastOp'.a > 0
       THEN /\ historyRef' = Append(historyRef, state)
            /\ undo(StoreNext).state = state
            /\ undo(StoreNext).history = historyRef
       ELSE UNCHANGED <<state, historyRef, futureRef>>]_vars

\* the cells of the grid that differ from the newest snapshot
ChangedCells ==
  {rc \in (DOMAIN state.rows) \X (1..Len(state.columns)) :
     state.rows[rc[1]][rc[2]] # historyRef[Len(historyRef)].rows[rc[1]][rc[2]]}

\* a drag fill that changed two cells or more
C9_Witness ==
  /\ lastOp.op = "applyDragFill"
  /\ lastOp.a >= 2
  /\ Len(historyRef) = 1
  /\ Cardinality(ChangedCells) >= 2

\* layerIds are exactly the ids of ls, each once
SameLayers(ids, ls) ==
  /\ Len(ids) = Len(ls)
  /\ Range(ids) = Range(IdsOf(ls))
  /\ \A i, j \in DOMAIN ls : i # j => ls[i].id # ls[j].id

\* C10: on a grid whose layerIds are the ids of layers, reorderByDirection
\* leaves layerIds in the order of sort(layers, d) and every layer id with the
\* row and the type it had, and leaves the columns alone.
C10_ReorderPermutes ==
  [][(lastOp'.op = "reorderByDirection" /\ SameLayers(state.layerIds, layers)) =>
       /\ state'.layerIds = IdsOf(sortLayersByDirection(layers, state'.sortDirection))
       /\ Len(state'.rows) = Len(state.rows)
       /\ Len(state'.layerTypes) = Len(state.layerTypes)
       /\ \A i \in DOMAIN state.layerIds : \E j \in DOMAIN state'.layerIds :
            /\ state'.layerIds[j] = state.layerIds[i]
            /\ state'.rows[j] = state.rows[i]
            /\ state'.layerTypes[j] = state.layerTypes[i]
       /\ state'.columns = state.columns]_vars

\* a reorder that moved an edited row
C10_Witness ==
  /\ lastOp.op = "reorderByDirection"
  /\ Len(historyRef) > 0
  /\ state.layerIds # historyRef[Len(historyRef)].layerIds
  /\ \E i \in DOMAIN state.rows : \E c \in DOMAIN state.rows[i] : state.rows[i][c] = <<"x">>

\* C11: immediately after initializeFromLayers(layers, d) and before any edit,
\* getRenames() returns for every layer a pair (layer.id, newName) whose
\* newName is that layer's original name.
C11_RenamesReproduceNames ==
  lastOp.op = "initializeFromLayers" =>
    \A i \in DOMAIN layers :
      \E r \in DOMAIN getRenames(state) :
        getRenames(state)[r] = [nodeId |-> layers[i].id, newName |-> layers[i].name]

\* C12: in every state getRenames() returns one pair per row i, with nodeId =
\* layerIds[i] and newName = the cells of row i concatenated in column order,
\* an empty cell contributing a single space; newName is getPreviewNames()[i].
C12_RenamesJoinCells ==
  /\ Len(getRenames(state)) = Len(state.rows)
  /\ \A i \in DOMAIN state.rows :
       state.rows[i] # HoleRow =>
         /\ getRenames(state)[i].nodeId = state.layerIds[i]
         /\ getRenames(state)[i].newName =
              Flatten([j \in DOMAIN state.rows[i] |->
                         IF state.rows[i][j] = <<>> THEN <<" ">> ELSE state.rows[i][j]])
         /\ getRenames(state)[i].newName = getPreviewNames(state)[i]

\* an edited grid of two rows in which an empty cell stands before a filled one
C12_Witness ==
  /\ Len(state.rows) >= 2
  /\ lastOp.op \in {"addColumn", "setCellValue", "fillCells"}
  /\ \E i \in DOMAIN state.rows :
       /\ state.rows[i] # HoleRow
       /\ \E j \in DOMAIN state.rows[i] :
            /\ j < Len(state.rows[i])
            /\ state.rows[i][j] = <<>>
            /\ state.rows[i][j + 1] # <<>>
       /\ Len(getRenames(state)[i].newName) >= 3

\* initializeFromLayers called with each direction, and with none
InitializeIn ==
  \E ls \in LayerLists, direction \in Directions \cup {""} :
    /\ Charged(initializeFromLayers(Store, ls, direction), Op("initializeFromLayers", 0, 0))
    /\ layers' = ls
    /\ UNCHANGED <<grid, quick, scroll, page>>

SpecInit == Init /\ [][InitializeIn \/ SetCellValue \/ Undo]_vars

\* C13: after initializeFromLayers(layers, d) there is one row per layer,
\* layerIds lists the ids of sort(layers, d) in that order, there is one
\* column more than the largest number of parts of a parsed name (at least 1),
\* and every row has one cell per column: its parsed parts, then empty cells,
\* the last cell being empty.
C13_InitializedGrid ==
  lastOp.op = "initializeFromLayers" =>
    LET sorted == sortLayersByDirection(layers, state.sortDirection)
        parts(i) == parseLayerName(sorted[i].name)
        counts == {1} \cup {Len(parts(i)) : i \in DOMAIN sorted}
        maxParts == CHOOSE m \in counts : \A n \in counts : n <= m
    IN  /\ Len(state.rows) = Len(layers)
        /\ state.layerIds = [i \in DOMAIN sorted |-> sorted[i].id]
        /\ Len(state.columns) = maxParts + 1
        /\ \A i \in DOMAIN state.rows :
             /\ Len(state.rows[i]) = Len(state.columns)
             /\ SubSeq(state.rows[i], 1, Len(parts(i))) = parts(i)
             /\ \A j \in (Len(parts(i)) + 1)..Len(state.rows[i]) : state.rows[i][j] = <<>>
             /\ state.rows[i][Len(state.rows[i])] = <<>>

\* three layers initialized in an order that is not theirs, names of one and
\* of two parts among them
C13_Witness ==
  /\ lastOp.op = "initializeFromLayers"
  /\ opCount > 0
  /\ state.sortDirection = "top-to-bottom"
  /\ Len(state.rows) = 3
  /\ state.layerIds # [i \in DOMAIN layers |-> layers[i].id]
  /\ \E i, j \in DOMAIN state.rows :
       /\ state.rows[i][2] # <<>>
       /\ state.rows[j][2] = <<>>

(* ------------------------------ series calls --------------------------- *)

\* the longest list of values handed to detectSeries
MaxValues == 3

\* the largest count handed to continueSeries
MaxCount == 3

\* detectSeries(values), as applyDragFill calls it on the selected values: the
\* first call made on the mounted grid
DetectSeries ==
  /\ lastOp.op = "initializeFromLayers"
  /\ \E values \in
       LET atoms == { <<"0","1">>, <<"0","2">>, <<"0","3">>, <<"9">>, <<"1","0">>,
                      <<"i","c","o","n","-","0","1">>, <<"i","c","o","n","-","0","2">>,
                      <<"a","2">>, <<"a","1">>,
                      <<"X">>, <<"Y">>, <<"Z">>, <<"a">>, <<"B">>,
                      <<"r","e","d">>, <<"b","l","u","e">> }
       IN  UNION {[1..n -> atoms] : n \in 0..MaxValues} :
    /\ lastOp' = Op("detectSeries", values, detectSeries(values))
    /\ UNCHANGED <<state, historyRef, futureRef, columnIdCounter, layers, opCount, grid, quick, scroll, page>>

\* continueSeries(series, count) on the series detected last
ContinueSeries ==
  /\ lastOp.op = "detectSeries"
  /\ \E count \in 0..MaxCount :
       lastOp' = [op |-> "continueSeries", a |-> lastOp.b,
                  b |-> continueSeries(lastOp.b, count), count |-> count]
  /\ UNCHANGED <<state, historyRef, futureRef, columnIdCounter, layers, opCount, grid, quick, scroll, page>>

\* continueSeries(series, count) on a series of type numeric
ContinueNumericSeries ==
  /\ lastOp.op = "detectSeries"
  /\ tryNumericSeries(lastOp.a) # NoSeries
  /\ \E count \in 0..MaxCount :
       lastOp' = [op |-> "continueSeries", a |-> tryNumericSeries(lastOp.a),
                  b |-> continueSeries(tryNumericSeries(lastOp.a), count), count |-> count]
  /\ UNCHANGED <<state, historyRef, futureRef, columnIdCounter, layers, opCount, grid, quick, scroll, page>>

SpecSeries == InitHist /\ [][DetectSeries \/ ContinueSeries \/ ContinueNumericSeries]_vars

\* two or more digit-only strings with equal successive differences
NumericProgression(values) ==
  /\ Len(values) >= 2
  /\ \A i \in DOMAIN values : IsDigitString(values[i])
  /\ \A i \in 1..(Len(values) - 1) :
       parseInt(values[i + 1]) - parseInt(values[i]) = parseInt(values[2]) - parseInt(values[1])

\* C14: for two or more digit-only strings with equal successive differences
\* detect returns type numeric with that difference as step, and continue
\* returns the next terms zero-padded to the width of the last observed value.
C14_NumericSeries ==
  /\ (lastOp.op = "detectSeries" /\ NumericProgression(lastOp.a)) =>
       /\ lastOp.b.type = "numeric"
       /\ lastOp.b.step = parseInt(lastOp.a[2]) - parseInt(lastOp.a[1])
  /\ (lastOp.op = "continueSeries" /\ NumericProgression(lastOp.a.values)) =>
       LET values == lastOp.a.values
           last == values[Len(values)]
           term(k) == parseInt(last) + (parseInt(values[2]) - parseInt(values[1])) * k
       IN  \A k \in DOMAIN lastOp.b :
             term(k) >= 0 => lastOp.b[k] = padStart(NumberToString(term(k)), Len(last))

\* two or more values that each hold a digit run, with the same text before
\* and after their last digit run and equal successive differences of its number
MixedProgression(values) ==
  /\ Len(values) >= 2
  /\ \A i \in DOMAIN values :
       /\ \E j \in DOMAIN values[i] : IsDigit(values[i][j])
       /\ ParseMixed(values[i]).prefix = ParseMixed(values[1]).prefix
       /\ ParseMixed(values[i]).suffix = ParseMixed(values[1]).suffix
  /\ \A i \in 1..(Len(values) - 1) :
       ParseMixed(values[i + 1]).num - ParseMixed(values[i]).num
         = ParseMixed(values[2]).num - ParseMixed(values[1]).num

\* C15: for such values detect returns type mixed with the difference d as
\* step, the shared prefix and suffix and the digit run's width as padLength,
\* and the k-th continued value is prefix + zero-padded(last number + d*k,
\* padLength) + suffix.
C15_MixedSeries ==
  /\ (lastOp.op = "detectSeries" /\ MixedProgression(lastOp.a)) =>
       /\ lastOp.b.type = "mixed"
       /\ lastOp.b.step = ParseMixed(lastOp.a[2]).num - ParseMixed(lastOp.a[1]).num
       /\ lastOp.b.prefix = ParseMixed(lastOp.a[1]).prefix
       /\ lastOp.b.suffix = ParseMixed(lastOp.a[1]).suffix
       /\ lastOp.b.padLength \in {ParseMixed(lastOp.a[i]).padLength : i \in DOMAIN lastOp.a}
  /\ (lastOp.op = "continueSeries" /\ lastOp.a.type = "mixed") =>
       LET values == lastOp.a.values
           last == ParseMixed(values[Len(values)])
           d == ParseMixed(values[2]).num - ParseMixed(values[1]).num
       IN  \A k \in DOMAIN lastOp.b :
             lastOp.b[k] = last.prefix
                             \o padStart(NumberToString(last.num + d * k), lastOp.a.padLength)
                             \o last.suffix

\* C15 as the code has it: padLength is the width of the first value's digit
\* run, and a number below 0 is continued as 0.
C15_MixedSeriesClamped ==
  /\ (lastOp.op = "detectSeries" /\ MixedProgression(lastOp.a)) =>
       /\ lastOp.b.type = "mixed"
       /\ lastOp.b.step = ParseMixed(lastOp.a[2]).num - ParseMixed(lastOp.a[1]).num
       /\ lastOp.b.prefix = ParseMixed(lastOp.a[1]).prefix
       /\ lastOp.b.suffix = ParseMixed(lastOp.a[1]).suffix
       /\ lastOp.b.padLength = ParseMixed(lastOp.a[1]).padLength
  /\ (lastOp.op = "continueSeries" /\ lastOp.a.type = "mixed") =>
       LET values == lastOp.a.values
           last == ParseMixed(values[Len(values)])
           d == ParseMixed(values[2]).num - ParseMixed(values[1]).num
           term(k) == IF last.num + d * k < 0 THEN 0 ELSE last.num + d * k
       IN  /\ MixedProgression(values)
           /\ \A k \in DOMAIN lastOp.b :
                lastOp.b[k] = last.prefix
                                \o padStart(NumberToString(term(k)),
                                            ParseMixed(values[1]).padLength)
                                \o last.suffix

\* a descending series with a prefix continued below 0, and one whose digit
\* runs grow wider
C15_Witness ==
  /\ lastOp.op = "continueSeries"
  /\ lastOp.a.type = "mixed"
  /\ Len(lastOp.b) >= 2
  /\ \/ /\ lastOp.a.prefix # <<>>
        /\ ParseMixed(lastOp.a.values[Len(lastOp.a.values)]).num + lastOp.a.step * Len(lastOp.b) < 0
     \/ /\ lastOp.a.prefix # <<>>
        /\ lastOp.a.step > 0
        /\ lastOp.a.padLength = 2

\* the letter k steps of size step after the letter c, wrapping inside the 26
\* letters of the case of c
SteppedLetter(c, step, k) ==
  LET alphabet == IF IsUpper(c) THEN Upper ELSE Lower
  IN  alphabet[((IndexOf(alphabet, c) - 1 + step * k) % 26) + 1]

\* C16: for every alphabetic series that detect returns, every value that
\* continue produces is a single letter of the case of the last observed
\* value, stepped from it with wraparound inside that 26-letter alphabet.
C16_AlphabeticWraps ==
  (lastOp.op = "continueSeries" /\ lastOp.a.type = "alphabetic") =>
    LET last == lastOp.a.values[Len(lastOp.a.values)][1]
    IN  \A k \in DOMAIN lastOp.b :
          lastOp.b[k] = <<SteppedLetter(last, lastOp.a.step, k)>>

\* C17: continue never emits a signed numeric string: for a numeric and for a
\* mixed series, whenever last number + step*k is negative the number is
\* clamped to 0 before zero-padding.
C17_NoSignedNumber ==
  (lastOp.op = "continueSeries" /\ lastOp.a.type \in {"numeric", "mixed"}) =>
    LET last == lastOp.a.values[Len(lastOp.a.values)]
        padLength == IF lastOp.a.type = "mixed" THEN lastOp.a.padLength ELSE Len(last)
        zero == padStart(<<"0">>, padLength)
    IN  \A k \in DOMAIN lastOp.b :
          ParseMixed(last).num + lastOp.a.step * k < 0 =>
            lastOp.b[k] = ParseMixed(last).prefix \o zero \o ParseMixed(last).suffix

\* two or more single letters with equal successive character-code differences
AlphabeticProgression(values) ==
  /\ Len(values) >= 2
  /\ \A i \in DOMAIN values : Len(values[i]) = 1 /\ IsLetter(values[i][1])
  /\ \A i \in 1..(Len(values) - 1) :
       charCodeAt(values[i + 1][1]) - charCodeAt(values[i][1])
         = charCodeAt(values[2][1]) - charCodeAt(values[1][1])

\* C18: for two or more values that form no mixed, numeric or alphabetic
\* progression detect returns type constant, and continue(series, n) returns
\* exactly n values, the i-th (0-based) being values[i mod values.length].
C18_ConstantCycles ==
  /\ (/\ lastOp.op = "detectSeries"
      /\ Len(lastOp.a) >= 2
      /\ ~MixedProgression(lastOp.a)
      /\ ~NumericProgression(lastOp.a)
      /\ ~AlphabeticProgression(lastOp.a)) =>
       /\ lastOp.b.type = "constant"
       /\ lastOp.b.values = lastOp.a
  /\ (lastOp.op = "continueSeries" /\ lastOp.a.type = "constant" /\ Len(lastOp.a.values) >= 2) =>
       /\ Len(lastOp.b) = lastOp.count
       /\ \A i \in 0..(lastOp.count - 1) :
            lastOp.b[i + 1] = lastOp.a.values[(i % Len(lastOp.a.values)) + 1]

\* two words that are no progression, continued by three values
C18_Witness ==
  /\ lastOp.op = "continueSeries"
  /\ lastOp.a.type = "constant"
  /\ lastOp.count = 3
  /\ lastOp.a.values = << <<"r","e","d">>, <<"b","l","u","e">> >>
  /\ lastOp.b = << <<"r","e","d">>, <<"b","l","u","e">>, <<"r","e","d">> >>

C20_DiagonalReleaseFills ==
  [][LET sel == getNormalizedSelection(selection)
     IN  (/\ isDraggingFill
          /\ lastOp'.op = "applyDragFill"
          /\ selection # NoSelection
          /\ isVerticalDrag(sel, dragTargetRow)
          /\ isHorizontalDrag(sel, dragTargetCol)) =>
           \/ StoreNext = fillCells(Store, VerticalFills(state, sel, dragTargetRow))
           \/ StoreNext = fillCells(Store, HorizontalFills(state, sel, dragTargetCol))]_vars

(* ------------------------------ clipboard ------------------------------ *)

\* Cmd/Ctrl+X on the grid: cutSelectedCells
CutSelectedCells ==
  /\ selection # NoSelection
  /\ clipboard' = [rows |-> copySelectedCells(state, selection)]
  /\ isCut' = TRUE
  /\ cutSelection' = getNormalizedSelection(selection)
  /\ lastOp' = Op("cutSelectedCells", 0, 0)
  /\ UNCHANGED <<state, historyRef, futureRef, columnIdCounter, layers, opCount, quick, scroll, page>>
  /\ UNCHANGED <<selection, isSelecting, isDraggingFill, dragTargetRow, dragTargetCol,
                 editingCell>>

\* a paste event on the grid: the system clipboard holds the text of the last
\* copy, or a text from elsewhere
HandlePasteEvent ==
  \E pasteData \in PasteInputs
                     \cup (IF clipboard = NoClipboard THEN {} ELSE {ClipboardText(clipboard.rows)}) :
    \E after \in {handleContainerPaste(Store, selection, pasteData)} :
      /\ Charged(after.store, [op |-> "handleContainerPaste", a |-> Len(after.fills), b |-> 0,
                               pasteData |-> pasteData])
      /\ selection' = after.selection
      /\ UNCHANGED <<layers, quick, scroll, page, isSelecting, isDraggingFill, dragTargetRow,
                     dragTargetCol,
                     editingCell, clipboard, isCut, cutSelection>>

SpecClipboard ==
  InitGrid /\ [][\/ HandleCellMouseDown
                 \/ HandleMouseUp
                 \/ CutSelectedCells
                 \/ HandlePasteEvent
                 \/ SetColumnHeader]_vars

\* C21: a paste with any data at any selection never changes rows.length,
\* columns.length or the length of a row: values whose destination lies
\* outside the grid are dropped.
C21_PasteKeepsShape ==
  [][lastOp'.op = "handleContainerPaste" =>
       /\ Len(state'.rows) = Len(state.rows)
       /\ Len(state'.columns) = Len(state.columns)
       /\ \A r \in DOMAIN state.rows : Len(state'.rows[r]) = Len(state.rows[r])]_vars

\* C22: after Cut on a source rectangle followed by a paste of the cut cells
\* at a target, every source cell that the pasted region does not cover is
\* cleared to the empty string.
C22_CutClearsSource ==
  [][(/\ lastOp'.op = "handleContainerPaste"
      /\ lastOp'.a > 0
      /\ isCut
      /\ clipboard # NoClipboard
      /\ lastOp'.pasteData = ClipboardText(clipboard.rows)) =>
       LET target == getNormalizedSelection(selection)
           covered(r, c) ==
             /\ r >= target.startRow /\ r < target.startRow + Len(clipboard.rows)
             /\ c >= target.startCol /\ c < target.startCol + Len(clipboard.rows[1])
       IN  \A r \in cutSelection.startRow..cutSelection.endRow :
             \A c \in cutSelection.startCol..cutSelection.endCol :
               (r < Len(state'.rows) /\ c < Len(state'.rows[r + 1]) /\ ~covered(r, c)) =>
                 state'.rows[r + 1][c + 1] = <<>>]_vars

(* ------------------------------ parser calls --------------------------- *)

\* the most pieces a layer name is put together from
MaxPieces == 3

\* parseLayerName(layer.name), as initializeFromLayers calls it: the first
\* call made on the mounted grid. The name is put together from up to
\* MaxPieces pieces: words of the dictionary, letters, digits and delimiters.
ParseLayerName ==
  /\ lastOp.op = "initializeFromLayers"
  /\ \E ps \in UNION {[1..n -> { <<"i","c","o","n">>, <<"b","g">>, <<"B","g">>, <<"X">>,
                                  <<"q">>, <<"0","1">>, <<"_">>, <<"-">>, <<"/">>,
                                  <<".">>, <<" ">> }] : n \in 0..MaxPieces} :
       lastOp' = Op("parseLayerName", Flatten(ps), parseLayerName(Flatten(ps)))
  /\ UNCHANGED <<state, historyRef, futureRef, columnIdCounter, layers, opCount, grid, quick, scroll, page>>

SpecParse == InitHist /\ [][ParseLayerName]_vars

IsSeparatorSplit(name, parts) ==
  /\ Flatten(parts) = name
  /\ \A i \in DOMAIN parts :
       \/ Len(parts[i]) = 1 /\ parts[i][1] \in SeparatorChars
       \/ /\ Len(parts[i]) >= 1
          /\ \A j \in DOMAIN parts[i] : parts[i][j] \notin SeparatorChars
          /\ i < Len(parts) => parts[i + 1][1] \in SeparatorChars

\* C24: the strategies are tried in the order separator, case boundary, digit
\* boundary, dictionary, and the first that yields more than one part wins; a
\* name of more than one character that holds a delimiter is split by the
\* separator strategy alone.
C24_StrategyOrder ==
  lastOp.op = "parseLayerName" =>
    LET results == << trySeparatorParsing(lastOp.a), tryCamelCaseParsing(lastOp.a),
                      tryNumberBoundaryParsing(lastOp.a), tryDictionaryParsing(lastOp.a) >>
        winners == {i \in 1..4 : Len(results[i]) > 1}
    IN  /\ winners # {} =>
             lastOp.b = results[CHOOSE i \in winners : \A j \in winners : i <= j]
        /\ (Len(lastOp.a) > 1 /\ \E i \in DOMAIN lastOp.a : lastOp.a[i] \in SeparatorChars) =>
             IsSeparatorSplit(lastOp.a, lastOp.b)

\* a name with a delimiter, a case boundary and dictionary words has been
\* parsed by the separator strategy
C24_Witness ==
  /\ lastOp.op = "parseLayerName"
  /\ lastOp.a = <<"b","g","B","g","_">>
  /\ lastOp.b = << <<"b","g","B","g">>, <<"_">> >>

\* C25: when the case-boundary strategy applies (no delimiter in the name,
\* some lower-case letter followed by an upper-case letter), a part boundary
\* is placed before an upper-case letter if and only if the character before
\* it is a lower-case letter.
C25_CamelBoundaries ==
  (/\ lastOp.op = "parseLayerName"
   /\ \A i \in DOMAIN lastOp.a : lastOp.a[i] \notin SeparatorChars
   /\ \E i \in 1..(Len(lastOp.a) - 1) : IsLower(lastOp.a[i]) /\ IsUpper(lastOp.a[i + 1])) =>
    LET name == lastOp.a
        parts == lastOp.b
        starts == {Len(Flatten(SubSeq(parts, 1, k))) + 1 : k \in 1..(Len(parts) - 1)}
    IN  /\ Flatten(parts) = name
        /\ starts = {i \in 2..Len(name) : IsLower(name[i - 1]) /\ IsUpper(name[i])}

(* ------------------------------ sorter calls --------------------------- *)

\* the most layers handed to one sort
MaxLayers == 3

\* sortLayersByDirection(layers, direction), as initializeFromLayers and
\* reorderByDirection call it. The id of a layer is its place in the list, and
\* its coordinates lie on both sides of the first bucket boundary (25).
SortLayersByDirection ==
  /\ lastOp.op = "initializeFromLayers"
  /\ \E n \in 0..MaxLayers, direction \in Directions :
       \E xs \in [1..n -> {0, 24, 25}], ys \in [1..n -> {0, 24, 25}] :
         LET ls == [i \in 1..n |-> [id |-> i, x |-> xs[i], y |-> ys[i]]]
         IN  lastOp' = [op |-> "sortLayersByDirection", a |-> ls,
                        b |-> sortLayersByDirection(ls, direction),
                        direction |-> direction]
  /\ UNCHANGED <<state, historyRef, futureRef, columnIdCounter, layers, opCount, grid, quick, scroll, page>>

SpecSort == InitHist /\ [][SortLayersByDirection]_vars

\* the pair of keys that orders the layers under a direction, both ascending
SortKey(layer, direction, threshold) ==
  CASE direction = "left-to-right" -> <<layer.x, layer.y>>
    [] direction = "right-to-left" -> <<0 - layer.x, layer.y>>
    [] direction = "bottom-to-top" -> <<0 - layer.y, layer.x>>
    [] direction = "top-to-bottom" -> <<layer.x \div threshold, layer.y>>
    [] direction = "reading-order" -> <<layer.y \div threshold, layer.x>>

\* C26: sort returns a permutation of its input, ordered by the keys of the
\* direction (left-to-right x then y, right-to-left x descending then y,
\* bottom-to-top y descending then x, top-to-bottom floor(x/threshold) then y,
\* reading-order floor(y/threshold) then x); layers with equal keys keep
\* their input order.
C26_SortedPermutation ==
  lastOp.op = "sortLayersByDirection" =>
    LET input == lastOp.a
        sorted == lastOp.b
        threshold == IF Len(input) < 2 THEN 20 ELSE 25
        key(i) == SortKey(sorted[i], lastOp.direction, threshold)
    IN  /\ Len(sorted) = Len(input)
        /\ \A i \in DOMAIN input : \E j \in DOMAIN sorted : sorted[j] = input[i]
        /\ \A i, j \in DOMAIN sorted :
             i < j =>
               \/ key(i)[1] < key(j)[1]
               \/ key(i)[1] = key(j)[1] /\ key(i)[2] < key(j)[2]
               \/ key(i) = key(j) /\ sorted[i].id < sorted[j].id

\* three layers were sorted top-to-bottom: the first two of the result have
\* equal keys and kept their input order, the third came from the front
C26_Witness ==
  /\ lastOp.op = "sortLayersByDirection"
  /\ lastOp.direction = "top-to-bottom"
  /\ lastOp.a = << [id |-> 1, x |-> 25, y |-> 0], [id |-> 2, x |-> 24, y |-> 24],
                   [id |-> 3, x |-> 0, y |-> 24] >>
  /\ lastOp.b = << [id |-> 2, x |-> 24, y |-> 24], [id |-> 3, x |-> 0, y |-> 24],
                   [id |-> 1, x |-> 25, y |-> 0] >>

\* C27: under reading-order with two or more layers, two layers whose y
\* coordinates differ by one pixel are in the same row bucket and so are
\* ordered relative to each other by x ascending.
C27_NearAlignedSameRow ==
  (/\ lastOp.op = "sortLayersByDirection"
   /\ lastOp.direction = "reading-order"
   /\ Len(lastOp.a) >= 2) =>
    \A i, j \in DOMAIN lastOp.b :
      LET a == lastOp.b[i]
          b == lastOp.b[j]
      IN  (i < j /\ (a.y - b.y = 1 \/ b.y - a.y = 1)) =>
            /\ a.y \div getThreshold(lastOp.a) = b.y \div getThreshold(lastOp.a)
            /\ a.x <= b.x


\* C30: initializeFromLayers records no history entry, and from then on, until
\* the next initializeFromLayers, no edit, undo or redo brings back a grid of
\* the layers supplied before: the layerIds of every state are the ids of the
\* layers supplied last.
C30_FreshSession ==
  [][/\ lastOp'.op = "initializeFromLayers" => historyRef' = historyRef
     /\ {state'.layerIds[i] : i \in DOMAIN state'.layerIds}
          = {layers'[i].id : i \in DOMAIN layers'}]_vars


(* ------------------------------ host: batch rename --------------------- *)

\* the node ids of a batch
NodeIds == {"L1", "L2", "L3"}

\* figma.getNodeByIdAsync answers null for a node that no longer exists
NoNode == [none |-> "node"]

\* a variant of handleBatchRename that gives up at the first pair it cannot apply
RECURSIVE handleBatchRename_stopsAtSkip(_, _)
handleBatchRename_stopsAtSkip(document, renames) ==
  IF renames = <<>> THEN document
  ELSE LET node == document[Head(renames).nodeId] IN
       IF node # NoNode /\ ~node.locked
       THEN handleBatchRename_stopsAtSkip(
              [document EXCEPT ![Head(renames).nodeId].name = Head(renames).newName],
              Tail(renames))
       ELSE document

\* the document after the loop over the pairs
RECURSIVE handleBatchRename(_, _)
handleBatchRename(document, renames) ==
  IF renames = <<>> THEN document
  ELSE LET node == document[Head(renames).nodeId] IN
       IF node # NoNode /\ ~node.locked
       THEN handleBatchRename(
              [document EXCEPT ![Head(renames).nodeId].name = Head(renames).newName],
              Tail(renames))
       ELSE handleBatchRename(document, Tail(renames))

\* the host receives the batchRename message. A node of the document is
\* removed, locked or free; the batch holds one pair for each of some nodes,
\* in any order.
HandleBatchRename ==
  /\ lastOp.op = "initializeFromLayers"
  /\ \E document \in [NodeIds -> { NoNode, [name |-> <<"o">>, locked |-> TRUE],
                                    [name |-> <<"o">>, locked |-> FALSE] }],
        renames \in UNION {[1..n -> [nodeId : NodeIds, newName : {<<"x">>, <<"y">>}]] :
                             n \in 0..Cardinality(NodeIds)} :
       /\ \A i, j \in DOMAIN renames : renames[i].nodeId = renames[j].nodeId => i = j
       /\ lastOp' = Op("handleBatchRename", [document |-> document, renames |-> renames],
                       handleBatchRename(document, renames))
  /\ UNCHANGED <<state, historyRef, futureRef, columnIdCounter, layers, opCount, grid, quick, scroll, page>>

SpecHost == InitHist /\ [][HandleBatchRename]_vars

\* C28: batchRename applies each pair on its own: the node of a pair is left
\* as it was when it no longer exists or is locked, and the node of every
\* other pair, before and after a skipped one, bears the pair's new name;
\* the nodes no pair names are left as they were.
C28_BatchRenameSkips ==
  lastOp.op = "handleBatchRename" =>
    LET document == lastOp.a.document
        renames == lastOp.a.renames
        after == lastOp.b
    IN  /\ \A i \in DOMAIN renames :
             LET id == renames[i].nodeId IN
             IF document[id] = NoNode \/ document[id].locked
             THEN after[id] = document[id]
             ELSE after[id] = [document[id] EXCEPT !.name = renames[i].newName]
        /\ \A id \in NodeIds :
             (\A i \in DOMAIN renames : renames[i].nodeId # id) => after[id] = document[id]

\* a batch of three pairs whose second node was removed: the first and the
\* third node are renamed
C28_Witness ==
  /\ lastOp.op = "handleBatchRename"
  /\ Len(lastOp.a.renames) = 3
  /\ [i \in 1..3 |-> lastOp.a.renames[i].nodeId] = <<"L1", "L2", "L3">>
  /\ lastOp.a.document["L2"] = NoNode
  /\ lastOp.b["L2"] = NoNode
  /\ lastOp.b["L1"] = [name |-> <<"x">>, locked |-> FALSE]
  /\ lastOp.b["L3"] = [name |-> <<"y">>, locked |-> FALSE]


(* ------------------------------ quick mode: the debounced rename -------- *)

\* the most messages posted in one behaviour
MaxPosted == 4

\* the rename message
Rename(name) == [type |-> "rename", name |-> name]

\* the user types: the debounced rename is armed anew for a text that is
\* not empty, and the timer pending before it is cleared
HandleInputChange ==
  /\ \E value \in {<<>>, <<"x">>, <<"y">>} :
       /\ value # inputValue
       /\ inputValue' = value
       /\ timeoutRef' = IF Len(value) > 0 THEN [name |-> value] ELSE timeoutRef
  /\ lastOp' = Op("handleInputChange", 0, 0)
  /\ UNCHANGED <<state, historyRef, futureRef, columnIdCounter, layers, opCount, grid, scroll, page, posted>>

\* 150 ms have passed since the timer was set: its callback posts the rename
DebouncedRename ==
  /\ timeoutRef # NoTimer
  /\ Len(posted) < MaxPosted
  /\ posted' = Append(posted, Rename(timeoutRef.name))
  /\ timeoutRef' = NoTimer
  /\ lastOp' = Op("debouncedRename", 0, 0)
  /\ UNCHANGED <<state, historyRef, futureRef, columnIdCounter, layers, opCount, grid, scroll, page, inputValue>>

\* Tab, Shift+Tab or Enter in the input
HandleKeyDown ==
  /\ Len(posted) + 2 <= MaxPosted
  /\ \E type \in {"selectNext", "selectPrevious", "enterFrame"} :
       posted' = posted \o (IF inputValue # <<>> THEN <<Rename(inputValue)>> ELSE <<>>)
                        \o <<[type |-> type]>>
  /\ lastOp' = Op("handleKeyDown", 0, 0)
  /\ UNCHANGED <<state, historyRef, futureRef, columnIdCounter, layers, opCount, grid, scroll, page>>
  /\ UNCHANGED <<inputValue, timeoutRef>>

\* the plugin reports a new selection: the input shows the name of the one
\* layer selected, or nothing
HandleSelectionChanged ==
  /\ \E name \in {<<>>, <<"o">>} :
       /\ name # inputValue
       /\ inputValue' = name
  /\ lastOp' = Op("selectionChanged", 0, 0)
  /\ UNCHANGED <<state, historyRef, futureRef, columnIdCounter, layers, opCount, grid, scroll, page>>
  /\ UNCHANGED <<timeoutRef, posted>>

SpecQuick ==
  InitHist /\ [][\/ HandleInputChange
                 \/ DebouncedRename
                 \/ HandleKeyDown
                 \/ HandleSelectionChanged]_vars

\* C29: when Tab or Enter commits the input, the rename of the typed name is
\* posted before the selectNext, selectPrevious or enterFrame message, and the
\* pending debounced rename is flushed: no timer is left that would post a
\* rename after the message.
C29_CommitFlushesRename ==
  [][lastOp'.op = "handleKeyDown" =>
       /\ inputValue # <<>> =>
            /\ Len(posted') = Len(posted) + 2
            /\ posted'[Len(posted) + 1] = Rename(inputValue)
            /\ posted'[Len(posted) + 2].type \in {"selectNext", "selectPrevious", "enterFrame"}
       /\ timeoutRef' = NoTimer]_vars


C37_ReorderIsNoHistoryEvent ==
  [][/\ lastOp'.op = "reorderByDirection" =>
          historyRef' = historyRef /\ futureRef' = futureRef
     /\ (lastOp.op = "reorderByDirection" /\ lastOp'.op = "undo" /\ historyRef # <<>>) =>
          /\ state' = historyRef[Len(historyRef)]
          /\ futureRef' = <<state>> \o futureRef
     /\ (lastOp.op = "undo" /\ lastOp'.op = "redo" /\ futureRef # <<>>) =>
          /\ state' = futureRef[1]
          /\ historyRef' = Append(historyRef, state)]_vars

\* setCellValue, reorderByDirection, undo and redo in this order: the state
\* is the edited grid in the new order, over the snapshot from before the edit
C37_Witness ==
  /\ lastOp.op = "redo"
  /\ Len(historyRef) = 1
  /\ historyRef[1].sortDirection = "reading-order"
  /\ historyRef[1].layerIds = <<"L1", "L2">>
  /\ state.sortDirection = "bottom-to-top"
  /\ state.layerIds = <<"L2", "L1">>
  /\ state.rows # <<historyRef[1].rows[2], historyRef[1].rows[1]>>


(* ------------------------------ column identity ------------------------ *)

\* the store under initializeFromLayers, addColumn, deleteColumn, undo and redo
SpecColumns ==
  Init /\ [][InitializeFromLayers \/ AddColumn \/ DeleteColumn \/ Undo \/ Redo]_vars

\* the ids of the columns, in order
ColumnIds(columns) == [i \in DOMAIN columns |-> columns[i].id]

\* array without its element at position k (1-based)
Without(array, k) == SubSeq(array, 1, k - 1) \o SubSeq(array, k + 1, Len(array))

\* C38: the ids of the columns are pairwise distinct in every state; addColumn
\* adds one column and deleteColumn removes one (or none, when refused), and
\* the ids of the other columns, in their order, stay as they were.
C38_ColumnIdsDistinct ==
  [][/\ \A i, j \in DOMAIN state'.columns :
          state'.columns[i].id = state'.columns[j].id => i = j
     /\ lastOp'.op = "addColumn" =>
          \E k \in DOMAIN state'.columns :
            /\ ColumnIds(Without(state'.columns, k)) = ColumnIds(state.columns)
            /\ \A i \in DOMAIN state.columns : state'.columns[k].id # state.columns[i].id
     /\ lastOp'.op = "deleteColumn" =>
          \/ ColumnIds(state'.columns) = ColumnIds(state.columns)
          \/ \E k \in DOMAIN state.columns :
               ColumnIds(state'.columns) = ColumnIds(Without(state.columns, k))]_vars

\* a column was added, the addition undone and a column added again in
\* front: the new column has an id that was never used
C38_Witness ==
  /\ lastOp.op = "addColumn"
  /\ lastOp.a = -1
  /\ Len(historyRef) = 1
  /\ Len(state.columns) = 3
  /\ ColumnIds(state.columns) = <<5, 2, 3>>


C33_ClickSelectedCellAppends ==
  [][(/\ lastOp'.op = "handleCellMouseDown"
      /\ getNormalizedSelection(selection)
           = Selection(lastOp'.a, lastOp'.b, lastOp'.a, lastOp'.b)) =>
       /\ editingCell' # NoCell
       /\ editingCell'.row = lastOp'.a /\ editingCell'.col = lastOp'.b
       /\ FocusEffect(editingCell'.mode) = "caret at end"
       /\ selection' = selection]_vars


(* ------------------------------ keyboard ------------------------------- *)

\* what a key handler leaves behind: the store, the selection, the edited cell
After(store, sel, editing) ==
  [store |-> store, selection |-> sel, editingCell |-> editing]

\* clearSelectedCells: one fillCells call that empties the cells of the current
clearSelectedCells(store, current) ==
  LET norm == getNormalizedSelection(current)
      width == norm.endCol - norm.startCol + 1
      fills == [k \in 1..((norm.endRow - norm.startRow + 1) * width) |->
                  Fill(norm.startRow + ((k - 1) \div width),
                       norm.startCol + ((k - 1) % width), <<>>)]
  IN  IF current = NoSelection \/ fills = <<>> THEN store ELSE fillCells(store, fills)

\* the part of handleContainerKeyDown under "Arrow key navigation when not
\* editing": the arrows, Tab, Enter and F2; row and col are the first row and
\* column of the normalized selection
NavigationKey(store, current, e) ==
  LET norm == getNormalizedSelection(current)
      row == norm.startRow
      col == norm.startCol
      lastRow == Len(store.state.rows) - 1
      lastCol == Len(store.state.columns) - 1
      moveTo(cell) == After(store, cell, NoCell)
      stay == After(store, current, NoCell)
  IN  CASE e.key = "ArrowDown" ->
             IF e.shiftKey
             THEN moveTo([current EXCEPT !.endRow = Min2(@ + 1, lastRow)])
             ELSE IF row < lastRow THEN moveTo(Selection(row + 1, col, row + 1, col)) ELSE stay
        [] e.key = "ArrowUp" ->
             IF e.shiftKey
             THEN moveTo([current EXCEPT !.endRow = Max2(@ - 1, 0)])
             ELSE IF row > 0 THEN moveTo(Selection(row - 1, col, row - 1, col)) ELSE stay
        [] e.key = "ArrowRight" ->
             IF e.shiftKey
             THEN moveTo([current EXCEPT !.endCol = Min2(@ + 1, lastCol)])
             ELSE IF col < lastCol THEN moveTo(Selection(row, col + 1, row, col + 1)) ELSE stay
        [] e.key = "ArrowLeft" ->
             IF e.shiftKey
             THEN moveTo([current EXCEPT !.endCol = Max2(@ - 1, 0)])
             ELSE IF col > 0 THEN moveTo(Selection(row, col - 1, row, col - 1)) ELSE stay
        [] e.key = "Tab" ->
             IF e.shiftKey
             THEN IF col > 0 THEN moveTo(Selection(row, col - 1, row, col - 1))
                  ELSE IF row > 0 THEN moveTo(Selection(row - 1, lastCol, row - 1, lastCol)) ELSE stay
             ELSE IF col < lastCol THEN moveTo(Selection(row, col + 1, row, col + 1))
                  ELSE IF row < lastRow THEN moveTo(Selection(row + 1, 0, row + 1, 0)) ELSE stay
        [] e.key = "Enter" ->
             IF row < lastRow THEN moveTo(Selection(row + 1, col, row + 1, col)) ELSE stay
        [] e.key = "F2" ->
             After(store, current, [row |-> row, col |-> col, mode |-> "doubleclick"])

\* a variant of handleContainerKeyDown whose Escape always clears the selection
handleContainerKeyDown_escapeDeselects(store, current, editing, e) ==
  LET norm == getNormalizedSelection(current)
      stay == After(store, current, editing)
  IN  IF e.cmdKey /\ e.key = "a"
      THEN IF editing = NoCell
           THEN After(store, Selection(0, 0, Len(store.state.rows) - 1,
                                       Len(store.state.columns) - 1), editing)
           ELSE stay
      ELSE IF e.cmdKey /\ e.key = "z" /\ ~e.shiftKey
      THEN After(undo(store), current, editing)
      ELSE IF (e.cmdKey /\ e.key = "z" /\ e.shiftKey) \/ (e.cmdKey /\ e.key = "y")
      THEN After(redo(store), current, editing)
      ELSE IF e.key = "Escape"
      THEN After(store, NoSelection, NoCell)
      ELSE IF norm = NoSelection
      THEN stay
      ELSE IF e.key \in {"Delete", "Backspace"} /\ editing = NoCell
      THEN After(clearSelectedCells(store, current), current, editing)
      ELSE IF editing = NoCell
              /\ e.key \in {"ArrowDown", "ArrowUp", "ArrowRight", "ArrowLeft", "Tab", "Enter", "F2"}
      THEN NavigationKey(store, current, e)
      ELSE IF editing = NoCell /\ ~e.cmdKey /\ Len(e.key) = 1
      THEN After(setCellValue(store, norm.startRow, norm.startCol, <<e.key>>),
                 Selection(norm.startRow, norm.startCol, norm.startRow, norm.startCol),
                 [row |-> norm.startRow, col |-> norm.startCol, mode |-> "typing"])
      ELSE stay

\* handleContainerKeyDown, but for the copy, cut and paste keys and for the
\* keystrokes appended while the input of the edited cell has no focus yet
handleContainerKeyDown(store, current, editing, e) ==
  LET norm == getNormalizedSelection(current)
      stay == After(store, current, editing)
  IN  IF e.cmdKey /\ e.key = "a"
      THEN IF editing = NoCell
           THEN After(store, Selection(0, 0, Len(store.state.rows) - 1,
                                       Len(store.state.columns) - 1), editing)
           ELSE stay
      ELSE IF e.cmdKey /\ e.key = "z" /\ ~e.shiftKey
      THEN After(undo(store), current, editing)
      ELSE IF (e.cmdKey /\ e.key = "z" /\ e.shiftKey) \/ (e.cmdKey /\ e.key = "y")
      THEN After(redo(store), current, editing)
      ELSE IF e.key = "Escape"
      THEN IF editing # NoCell THEN After(store, current, NoCell)
           ELSE After(store, NoSelection, editing)
      ELSE IF norm = NoSelection
      THEN stay
      ELSE IF e.key \in {"Delete", "Backspace"} /\ editing = NoCell
      THEN After(clearSelectedCells(store, current), current, editing)
      ELSE IF editing = NoCell
              /\ e.key \in {"ArrowDown", "ArrowUp", "ArrowRight", "ArrowLeft", "Tab", "Enter", "F2"}
      THEN NavigationKey(store, current, e)
      ELSE IF editing = NoCell /\ ~e.cmdKey /\ Len(e.key) = 1
      THEN After(setCellValue(store, norm.startRow, norm.startCol, <<e.key>>),
                 Selection(norm.startRow, norm.startCol, norm.startRow, norm.startCol),
                 [row |-> norm.startRow, col |-> norm.startCol, mode |-> "typing"])
      ELSE stay

\* the auto-select effect: it runs when the number of rows or of columns has
\* changed, and selects the first cell when nothing is selected
AutoSelect(before, after, sel) ==
  IF /\ (Len(after.rows) # Len(before.rows) \/ Len(after.columns) # Len(before.columns))
     /\ Len(after.rows) > 0 /\ Len(after.columns) > 0
     /\ sel = NoSelection
  THEN Selection(0, 0, 0, 0)
  ELSE sel

\* a key pressed in the grid; while a cell is edited its input keeps every key
\* but Enter, Tab and Escape, and of these the container acts on Escape alone
HandleContainerKeyDown ==
  \E e \in {[key |-> k[1], shiftKey |-> k[2], cmdKey |-> k[3]] :
              k \in {<<"a", FALSE, TRUE>>, <<"z", FALSE, TRUE>>, <<"z", TRUE, TRUE>>,
                     <<"y", FALSE, TRUE>>, <<"Escape", FALSE, FALSE>>,
                     <<"Delete", FALSE, FALSE>>, <<"Backspace", FALSE, FALSE>>,
                     <<"Enter", FALSE, FALSE>>, <<"F2", FALSE, FALSE>>,
                     <<"x", FALSE, FALSE>>}
                    \cup ({"ArrowDown", "ArrowUp", "ArrowRight", "ArrowLeft", "Tab"}
                          \X BOOLEAN \X {FALSE})} :
    /\ editingCell = NoCell \/ e.key = "Escape"
    /\ \E after \in {handleContainerKeyDown(Store, selection, editingCell, e)} :
         LET written == ~e.cmdKey /\ after.store # Store IN
         /\ written => opCount < MaxFills
         /\ Becomes(after.store)
         /\ opCount' = IF written THEN opCount + 1 ELSE opCount
         /\ selection' = AutoSelect(state, after.store.state, after.selection)
         /\ editingCell' = after.editingCell
    /\ lastOp' = Op("handleContainerKeyDown", e.key, e.shiftKey)
    /\ UNCHANGED <<layers, quick, scroll, page, isSelecting, isDraggingFill, dragTargetRow, dragTargetCol,
                   clipboard, isCut, cutSelection>>

\* the delete button of a column header, shown while more than one column is
\* left: no column is ever added here, so the deletions end by themselves
OnDeleteColumn ==
  \E colIndex \in 0..(Len(state.columns) - 1) :
    /\ Len(state.columns) > 1
    /\ \E store \in {deleteColumn(Store, colIndex)} :
         /\ Free(store, Op("deleteColumn", colIndex, 0))
         /\ selection' = AutoSelect(state, store.state, selection)
    /\ UNCHANGED <<layers, quick, scroll, page, isSelecting, isDraggingFill, dragTargetRow, dragTargetCol,
                   editingCell, clipboard, isCut, cutSelection>>

SpecKeys ==
  InitGrid /\ [][HandleContainerKeyDown \/ OnDeleteColumn]_vars

\* C31: in every reachable state a selection that is not null lies inside the
\* grid: its rows are rows of the grid and its columns are columns of the grid.
C31_SelectionInsideGrid ==
  selection # NoSelection =>
    /\ 0 <= selection.startRow /\ selection.startRow < Len(state.rows)
    /\ 0 <= selection.endRow /\ selection.endRow < Len(state.rows)
    /\ 0 <= selection.startCol /\ selection.startCol < Len(state.columns)
    /\ 0 <= selection.endCol /\ selection.endCol < Len(state.columns)

\* C34: a single printable character typed while a selection exists and no
\* cell is edited replaces the whole content of the first cell of the
\* normalized selection by that character, starts editing that cell in typing
\* mode and makes that cell the selection; no other cell changes.
C34_PrintableKeyReplaces ==
  [][(/\ lastOp'.op = "handleContainerKeyDown"
      /\ lastOp'.a = "x"
      /\ selection # NoSelection
      /\ editingCell = NoCell) =>
       LET row == getNormalizedSelection(selection).startRow
           col == getNormalizedSelection(selection).startCol
       IN  /\ row + 1 \in DOMAIN state.rows
           /\ col + 1 \in DOMAIN state.rows[row + 1]
           /\ state'.rows = [state.rows EXCEPT ![row + 1][col + 1] = <<"x">>]
           /\ editingCell' = [row |-> row, col |-> col, mode |-> "typing"]
           /\ selection' = Selection(row, col, row, col)]_vars

\* C35: Escape pressed while a cell is edited ends the editing and keeps the
\* selection; Escape pressed while nothing is edited clears the selection; in
\* neither case do the grid state or the undo and redo stacks change.
C35_EscapeLeavesGrid ==
  [][(lastOp'.op = "handleContainerKeyDown" /\ lastOp'.a = "Escape") =>
       /\ editingCell' = NoCell
       /\ selection' = IF editingCell # NoCell THEN selection ELSE NoSelection
       /\ UNCHANGED <<state, historyRef, futureRef>>]_vars

\* Escape has ended an editing over a selection, after the grid was edited
C35_Witness ==
  /\ lastOp.op = "handleContainerKeyDown" /\ lastOp.a = "Escape"
  /\ editingCell = NoCell
  /\ selection # NoSelection
  /\ historyRef # <<>>


(* ------------------------------ auto-scroll ---------------------------- *)

\* window.setInterval: a new interval on the axis starts running; its id is one
\* that no running interval has and no ref holds (the browser never reuses an id)
SetInterval(running, axis, held) ==
  LET id == CHOOSE n \in 1..(Cardinality(running) + Cardinality(held) + 1) :
              /\ n \notin held
              /\ \A t \in running : t.id # n
  IN  [id |-> id, running |-> running \cup {[axis |-> axis, id |-> id]}]

\* clearInterval: the interval of that id runs no more
ClearInterval(running, id) == {t \in running : t.id # id}

\* the ref sync effect, run after a render, copies the state into the refs
SyncRefs ==
  /\ mounted
  /\ isSelectingRef # isSelecting \/ isDraggingFillRef # isDraggingFill
  /\ isSelectingRef' = isSelecting
  /\ isDraggingFillRef' = isDraggingFill
  /\ lastOp' = Op("ref sync effect", 0, 0)
  /\ UNCHANGED <<state, historyRef, futureRef, columnIdCounter, layers, opCount, grid, quick, page>>
  /\ UNCHANGED <<scrollIntervalYRef, scrollIntervalXRef, intervals, mounted>>

\* handleMouseMove with the pointer over no cell: nearY and nearX say whether it
\* is within the edge threshold of a horizontal and of a vertical edge
HandleMouseMoveAtEdge ==
  \E nearY \in BOOLEAN, nearX \in BOOLEAN :
    LET held == {scrollIntervalYRef, scrollIntervalXRef} \ {0}
        cleared == ClearInterval(ClearInterval(intervals, scrollIntervalYRef),
                                 scrollIntervalXRef)
        vertical == IF nearY THEN SetInterval(cleared, "Y", held)
                    ELSE [id |-> 0, running |-> cleared]
        horizontal == IF nearX
                      THEN SetInterval(vertical.running, "X", held \cup {vertical.id})
                      ELSE [id |-> 0, running |-> vertical.running]
    IN
    /\ mounted
    /\ isDraggingFillRef \/ isSelectingRef
    /\ scrollIntervalYRef' = vertical.id
    /\ scrollIntervalXRef' = horizontal.id
    /\ intervals' = horizontal.running
    /\ lastOp' = Op("handleMouseMove", nearY, nearX)
    /\ UNCHANGED <<state, historyRef, futureRef, columnIdCounter, layers, opCount, grid, quick, page>>
    /\ UNCHANGED <<isSelectingRef, isDraggingFillRef, mounted>>

\* handleMouseUp with its intervals: both are cleared and their refs set to null (0),
\* the selecting ends, and a fill drag (as the ref has it) is applied and ended
HandleMouseUpAtEdge ==
  /\ mounted
  /\ intervals' = ClearInterval(ClearInterval(intervals, scrollIntervalYRef),
                                scrollIntervalXRef)
  /\ scrollIntervalYRef' = 0
  /\ scrollIntervalXRef' = 0
  /\ isSelecting' = FALSE
  /\ IF isDraggingFillRef
     THEN \E after \in {applyDragFill(Store, selection, dragTargetRow, dragTargetCol)} :
          /\ after.store # Store => opCount < MaxFills
          /\ Becomes(after.store)
          /\ opCount' = IF after.store # Store THEN opCount + 1 ELSE opCount
          /\ selection' = after.selection
          /\ isDraggingFill' = FALSE
          /\ dragTargetRow' = NoTarget
          /\ dragTargetCol' = NoTarget
     ELSE UNCHANGED <<state, historyRef, futureRef, columnIdCounter, opCount, selection,
                      isDraggingFill, dragTargetRow, dragTargetCol>>
  /\ lastOp' = Op("handleMouseUp", 0, 0)
  /\ UNCHANGED <<layers, editingCell, clipboard, isCut, cutSelection, quick, page>>
  /\ UNCHANGED <<isSelectingRef, isDraggingFillRef, mounted>>

\* the cleanup of the mouse-up effect: it clears both intervals and leaves
\* their refs; it runs when the effect runs again and when BatchGrid unmounts
MouseUpEffectCleanup ==
  \E unmount \in BOOLEAN :
    /\ mounted
    /\ intervals' = ClearInterval(ClearInterval(intervals, scrollIntervalYRef),
                                  scrollIntervalXRef)
    /\ mounted' = ~unmount
    /\ lastOp' = Op("mouse-up effect cleanup", unmount, 0)
    /\ UNCHANGED <<state, historyRef, futureRef, columnIdCounter, layers, opCount, grid, quick, page>>
    /\ UNCHANGED <<scrollIntervalYRef, scrollIntervalXRef, isSelectingRef, isDraggingFillRef>>

SpecScroll ==
  InitGrid /\ [][\/ (mounted /\ HandleCellMouseDown)
                 \/ (mounted /\ HandleDragHandleMouseDown)
                 \/ SyncRefs
                 \/ HandleMouseMoveAtEdge
                 \/ HandleMouseUpAtEdge
                 \/ MouseUpEffectCleanup]_vars

MaxRequests == 3

\* removeAllHighlights: every node named as a highlight is removed and the
\* stored id is emptied
RemoveAllHighlights ==
  /\ highlights' = {}
  /\ highlightNodeId' = 0

\* the message highlightLayer: showLayerHighlight runs up to its await of
\* figma.getNodeByIdAsync; "gone" is the id of a node that exists no more
ShowLayerHighlight ==
  \E nodeId \in {"L1", "L2", "gone"} :
    /\ Len(inFlight) + rectangles < MaxRequests
    /\ RemoveAllHighlights
    /\ inFlight' = Append(inFlight, nodeId)
    /\ lastOp' = Op("showLayerHighlight", nodeId, "highlightLayer")
    /\ UNCHANGED <<state, historyRef, futureRef, columnIdCounter, layers, opCount, grid, quick, scroll>>
    /\ UNCHANGED rectangles

\* a lookup of getNodeByIdAsync is answered and its showLayerHighlight goes on:
\* it returns when there is no node, else it appends a new rectangle to the
\* page and stores its id
ShowLayerHighlightResumes ==
  \E i \in 1..Len(inFlight) :
    /\ inFlight' = [k \in 1..(Len(inFlight) - 1) |->
                      IF k < i THEN inFlight[k] ELSE inFlight[k + 1]]
    /\ IF inFlight[i] = "gone"
       THEN UNCHANGED <<highlights, highlightNodeId, rectangles>>
       ELSE /\ rectangles' = rectangles + 1
            /\ highlights' = highlights \cup {rectangles + 1}
            /\ highlightNodeId' = rectangles + 1
    /\ lastOp' = Op("showLayerHighlight resumes", inFlight[i], lastOp.b)
    /\ UNCHANGED <<state, historyRef, futureRef, columnIdCounter, layers, opCount, grid, quick, scroll>>

\* the message removeHighlight
RemoveHighlightSync ==
  /\ RemoveAllHighlights
  /\ lastOp' = Op("removeHighlightSync", 0, "removeHighlight")
  /\ UNCHANGED <<state, historyRef, futureRef, columnIdCounter, layers, opCount, grid, quick, scroll>>
  /\ UNCHANGED <<inFlight, rectangles>>

SpecPage ==
  InitHist /\ [][ShowLayerHighlight \/ ShowLayerHighlightResumes \/ RemoveHighlightSync]_vars

\* C40: whenever no showLayerHighlight is waiting for its node, at most one
\* highlight rectangle is on the page, and none when the last message received
\* was removeHighlight.
C40_AtMostOneHighlight ==
  inFlight = <<>> =>
    /\ Cardinality(highlights) <= 1
    /\ (lastOp.op # "initializeFromLayers" /\ lastOp.b = "removeHighlight") => highlights = {}

====
